---------------------------- MODULE Spec2Model ----------------------------
(***************************************************************************)
(* Model of the read-and-recover engine of nfcuid: the RestartManager      *)
(* (failure tracker / restart supervisor), the RetryManager (bounded       *)
(* retry with linear backoff) and the NotificationManager (throttle).      *)
(*                                                                         *)
(* Three specifications share the variables:                               *)
(*   SpecRestart  drives RestartManager.TrackSystemFailure /               *)
(*                TrackContextFailure / ResetFailureCount,                 *)
(*   SpecRetry    drives RetryManager.Retry, one loop iteration per step,  *)
(*   SpecNotify   drives NotifyErrorThrottled / NotifyError /              *)
(*                NotifySuccess and the wall clock.                        *)
(* The clock `now` counts whole minutes.  Delays slept by Retry are kept   *)
(* in seconds, as in the configuration.                                    *)
(***************************************************************************)
EXTENDS Integers, Sequences, FiniteSets, TLC

\* ------------------------------------------------------------------ bounds
\* largest configured max_context_failures explored
MaxThreshold == 5
\* cap on the failure counter when self_restart is disabled
MaxFailures == 6
\* largest configured retry_attempts explored
MaxAttempts == 4
\* largest configured reconnect_delay (seconds) explored
MaxBaseDelay == 2
\* cap on the occurrence count of one error type
MaxCalls == 21
\* last minute of the wall clock
MaxNow == 6
\* cap on the number of error types reported within one run
MaxTypes == 1
\* cap on the sum of the occurrence counts once a second type is reported
MaxMixed == 2
\* SpecCard: occurrences of one error type, and minutes
MaxCardErrors == 2
MaxCardNow == 1
\* longest UID a card answers with
MaxUidLen == 7
\* longest response to the GET DATA command
MaxRspLen == 4
\* SpecService: readers attached, largest retry_attempts and
\* max_context_failures, occurrences of one error type
MaxReaders == 2
MaxServiceAttempts == 2
MaxServiceThreshold == 2
MaxServiceErrors == 1
\* SpecMain: command-line arguments of the first process, and restarts
MaxArgs == 2
MaxRestarts == 2
\* SpecRace: error reports made by the two goroutines, and minutes
MaxReports == 3
MaxRaceNow == 2
\* SpecVersion: longest list of dot-separated parts of a version string
MaxParts == 3
\* SpecLock: processes of the application started or spawned
MaxProcs == 3
\* SpecWatch: emissions of card UIDs counted for one card on the reader
MaxEmissions == 2

\* --------------------------------------------------------- program constants
\* 5*time.Minute, 2*time.Minute, 3*time.Minute, 1*time.Minute
CriticalInterval == 5
CardInterval == 2
ServiceInterval == 3
DefaultInterval == 1

\* absent key of the lastNotifications map
NoTime == -1
\* the nil error
Nil == "nil"

VARIABLES
    config,              \* Config: read-only after start-up
    contextFailureCount, \* RestartManager.contextFailureCount
    proc,                \* "running", or "exit0" / "exit1" after os.Exit
    restartTrace,        \* observable effects of performSelfRestart, in order
    lastCall,            \* most recent RestartManager call and what it returned
    hist,                \* history: failures since the last ResetFailureCount
    retry,               \* the activation of RetryManager.Retry
    errorCounts,         \* NotificationManager.errorCounts
    lastNotifications,   \* NotificationManager.lastNotifications
    now,                 \* time.Now(), minutes
    delivered,           \* desktop notifications sent by the last handler
    flags,               \* service.flags: the output format in use
    card                 \* the last service call: its input and its result

vars == <<config, contextFailureCount, proc, restartTrace, lastCall, hist,
          retry, errorCounts, lastNotifications, now, delivered, flags, card>>

restartVars == <<contextFailureCount, proc, restartTrace, lastCall, hist>>
notifyVars == <<errorCounts, lastNotifications, delivered>>
serviceVars == <<flags, card>>

\* --------------------------------------------------------------- vocabulary
\* the operation names passed to trackSystemFailure
Operations ==
    {"PC/SC Context", "Reader Enumeration", "Reader Status Monitoring",
     "Reader Connection"}

\* the error types the model reports
ErrorTypes ==
    {"pc-sc-context", "reader-error", "card-error", "service-error",
     "keyboard-error", "browser-error", "general-error"}

\* the substrings categorizeError looks for; a message is modelled by the
\* set of these substrings it contains
Keywords == {"PC/SC Context", "Reader", "Card", "Keyboard", "Browser", "Service"}

\* errors an operation can return
Errors == {"E1", "E2"}

\* ------------------------------------------------------------ configuration
\* validateConfig: retry_attempts >= 1, reconnect_delay >= 0,
\* max_context_failures >= 1, restart_delay >= 0
DefaultConfig ==
    [ Enabled |-> TRUE, ShowSuccess |-> TRUE, ShowErrors |-> TRUE,
      RetryAttempts |-> 3, ReconnectDelay |-> 2,
      SelfRestart |-> TRUE, MaxContextFailures |-> 5, RestartDelay |-> 10,
      CapsLock |-> FALSE, Reverse |-> FALSE, Decimal |-> FALSE,
      DecimalPadding |-> 0, EndChar |-> "none", InChar |-> "none",
      AutoReconnect |-> TRUE, Device |-> 0, OpenWebsite |-> FALSE ]


\* ------------------------------------------------------ NotificationManager
\* strings.Contains(message, k)
Contains(message, k) == k \in message

\* categorizeError: the first matching case of the switch
categorizeError(message) ==
    IF Contains(message, "PC/SC Context") THEN "pc-sc-context"
    ELSE IF Contains(message, "Reader") THEN "reader-error"
    ELSE IF Contains(message, "Card") THEN "card-error"
    ELSE IF Contains(message, "Keyboard") THEN "keyboard-error"
    ELSE IF Contains(message, "Browser") THEN "browser-error"
    ELSE IF Contains(message, "Service") THEN "service-error"
    ELSE "general-error"

\* case "pc-sc-context", "reader-error": 1st, 3rd, 5th, then every 10th,
\* or more than 5 minutes since the last notification
CriticalRule_every5(count, since) ==
    \/ count = 0 \/ count = 2 \/ count = 4
    \/ (count >= 5 /\ count % 5 = 0)
    \/ since > CriticalInterval

CriticalRule_noOverride(count, since) ==
    \/ count = 0 \/ count = 2 \/ count = 4
    \/ (count >= 10 /\ count % 10 = 0)

CriticalRule(count, since) ==
    \/ count = 0 \/ count = 2 \/ count = 4
    \/ (count >= 10 /\ count % 10 = 0)
    \/ since > CriticalInterval

\* case "card-error": 1st, then every 5th, or more than 2 minutes
CardRule_every3(count, since) ==
    \/ count = 0 \/ count % 3 = 0
    \/ since > CardInterval

CardRule_noFirst(count, since) ==
    \/ (count > 0 /\ count % 5 = 0)
    \/ since > CardInterval

CardRule(count, since) ==
    \/ count = 0 \/ count % 5 = 0
    \/ since > CardInterval

\* case "service-error": 1st, 2nd, then every 5th, or more than 3 minutes
ServiceRule_first(count, since) ==
    \/ count = 0 \/ count % 5 = 0
    \/ since > ServiceInterval

ServiceRule(count, since) ==
    \/ count <= 1 \/ count % 5 = 0
    \/ since > ServiceInterval

\* default: 1st, then every 3rd, or more than 1 minute
DefaultRule_every5(count, since) ==
    \/ count = 0 \/ count % 5 = 0
    \/ since > DefaultInterval

DefaultRule(count, since) ==
    \/ count = 0 \/ count % 3 = 0
    \/ since > DefaultInterval

\* shouldNotifyError at time t; lastN[errorType] = NoTime is the absent key
shouldNotifyError(errorType, lastN, counts, t) ==
    IF lastN[errorType] = NoTime
    THEN TRUE
    ELSE LET count == counts[errorType]
             since == t - lastN[errorType]
         IN  IF errorType \in {"pc-sc-context", "reader-error"}
             THEN CriticalRule(count, since)
             ELSE IF errorType = "card-error"
             THEN CardRule(count, since)
             ELSE IF errorType = "service-error"
             THEN ServiceRule(count, since)
             ELSE DefaultRule(count, since)

\* hasRecentErrors: some entry of errorCounts is > 0
hasRecentErrors(counts) == \E c \in DOMAIN counts : counts[c] > 0

\* clearErrorCounts: a fresh map; a missing key reads as 0
clearErrorCounts_none(counts) == counts

clearErrorCounts(counts) == [c \in DOMAIN counts |-> 0]

\* the (xN) suffix of the alert title: only when the count is > 1
TitleCount(count) == IF count > 1 THEN count ELSE 0

\* The state of a NotificationManager together with what it has sent.
NmState == [errorCounts |-> errorCounts,
            lastNotifications |-> lastNotifications,
            delivered |-> <<>>]

\* body shared by NotifyError and NotifyErrorThrottled after the gate
ReportError_countOnFire(nm, errorType, title, t) ==
    LET fire == shouldNotifyError(errorType, nm.lastNotifications,
                                  nm.errorCounts, t)
        alert == [kind |-> "alert", title |-> title, type |-> errorType,
                  x |-> TitleCount(nm.errorCounts[errorType])]
    IN  IF fire
        THEN [errorCounts |->
                  [nm.errorCounts EXCEPT ![errorType] = @ + 1],
              lastNotifications |->
                  [nm.lastNotifications EXCEPT ![errorType] = t],
              delivered |-> Append(nm.delivered, alert)]
        ELSE nm

ReportError(nm, errorType, title, t) ==
    LET fire == shouldNotifyError(errorType, nm.lastNotifications,
                                  nm.errorCounts, t)
        alert == [kind |-> "alert", title |-> title, type |-> errorType,
                  x |-> TitleCount(nm.errorCounts[errorType])]
    IN  [errorCounts |->
             [nm.errorCounts EXCEPT ![errorType] = @ + 1],
         lastNotifications |->
             IF fire THEN [nm.lastNotifications EXCEPT ![errorType] = t]
                     ELSE nm.lastNotifications,
         delivered |->
             IF fire THEN Append(nm.delivered, alert) ELSE nm.delivered]

\* NotificationManager.NotifyErrorThrottled(errorType, message)
NotifyErrorThrottledOp(cfg, nm, errorType, t) ==
    IF ~cfg.Enabled \/ ~cfg.ShowErrors
    THEN nm
    ELSE ReportError(nm, errorType, "NFC System-Fehler", t)

\* NotificationManager.NotifyError(message)
NotifyErrorOp(cfg, nm, message, t) ==
    IF ~cfg.Enabled \/ ~cfg.ShowErrors
    THEN nm
    ELSE ReportError(nm, categorizeError(message), "NFC Reader-Fehler", t)

\* NotificationManager.NotifySuccess(message)
NotifySuccessOp_always(cfg, nm) ==
    IF ~cfg.Enabled \/ ~cfg.ShowSuccess
    THEN nm
    ELSE [nm EXCEPT
            !.delivered = Append(@, [kind |-> "notify", title |-> "success",
                                     type |-> "", x |-> 0]),
            !.errorCounts = clearErrorCounts(@)]

NotifySuccessOp(cfg, nm) ==
    IF ~cfg.Enabled \/ ~cfg.ShowSuccess
    THEN nm
    ELSE IF hasRecentErrors(nm.errorCounts)
    THEN [nm EXCEPT
            !.delivered = Append(@, [kind |-> "notify", title |-> "success",
                                     type |-> "", x |-> 0]),
            !.errorCounts = clearErrorCounts(@)]
    ELSE nm

\* NotificationManager.NotifyInfo(title, message)
NotifyInfoOp(cfg, nm) ==
    IF ~cfg.Enabled
    THEN nm
    ELSE [nm EXCEPT
            !.delivered = Append(@, [kind |-> "notify", title |-> "info",
                                     type |-> "", x |-> 0])]

\* NewNotificationManager: two empty maps
NewErrorCounts == [c \in ErrorTypes |-> 0]
NewLastNotifications == [c \in ErrorTypes |-> NoTime]

\* ------------------------------------------------------------------ service
\* the names a CharFlag can have (-end-char, -in-char)
CharFlags ==
    {"none", "space", "tab", "hyphen", "enter", "semicolon", "colon", "comma"}

\* CharFlag.Output(): the text typed for a CharFlag, one string per character
CharFlagOutput(cf) ==
    CASE cf = "none"      -> <<>>
      [] cf = "space"     -> <<" ">>
      [] cf = "tab"       -> <<"\t">>
      [] cf = "hyphen"    -> <<"-">>
      [] cf = "enter"     -> <<"\n">>
      [] cf = "semicolon" -> <<";">>
      [] cf = "colon"     -> <<":">>
      [] cf = "comma"     -> <<",">>

\* Config.ToFlags: the Flags of service.go have no DecimalPadding field
ToFlags(cfg) ==
    [ CapsLock |-> cfg.CapsLock, Reverse |-> cfg.Reverse,
      Decimal |-> cfg.Decimal, EndChar |-> cfg.EndChar,
      InChar |-> cfg.InChar, Device |-> cfg.Device ]

\* no service call has been made yet, or the locals of the last one are
\* gone
NoCard == [op |-> "none", pc |-> "waiting", attempt |-> 0, uid |-> <<>>,
           output |-> <<>>, ret |-> Nil, calls |-> <<>>]

\* the digits of fmt's %x, %X and %d verbs
LowerHex ==
    <<"0", "1", "2", "3", "4", "5", "6", "7", "8", "9",
      "a", "b", "c", "d", "e", "f">>
UpperHex ==
    <<"0", "1", "2", "3", "4", "5", "6", "7", "8", "9",
      "A", "B", "C", "D", "E", "F">>

\* fmt.Sprintf("%02X", rxByte) / fmt.Sprintf("%02x", rxByte)
HexByte_oneDigit(rxByte, capsLock) ==
    LET digits == IF capsLock THEN UpperHex ELSE LowerHex
    IN  IF rxByte < 16 THEN <<digits[rxByte + 1]>>
        ELSE <<digits[(rxByte \div 16) + 1], digits[(rxByte % 16) + 1]>>

HexByte(rxByte, capsLock) ==
    LET digits == IF capsLock THEN UpperHex ELSE LowerHex
    IN  <<digits[(rxByte \div 16) + 1], digits[(rxByte % 16) + 1]>>

\* the in-place reversal loop of formatOutput
ReverseBytes(rx) == [i \in 1..Len(rx) |-> rx[Len(rx) + 1 - i]]

\* UIDToUint32: an error unless len(uid) = 4, else the little-endian
\* uint32, kept as its four bytes with the most significant one first
UIDToUint32_noCheck(uid) ==
    IF Len(uid) < 4
    THEN [err |-> TRUE, number |-> <<0, 0, 0, 0>>]
    ELSE [err |-> FALSE, number |-> <<uid[4], uid[3], uid[2], uid[1]>>]

UIDToUint32(uid) ==
    IF Len(uid) # 4
    THEN [err |-> TRUE, number |-> <<0, 0, 0, 0>>]
    ELSE [err |-> FALSE, number |-> <<uid[4], uid[3], uid[2], uid[1]>>]

\* number \div 10 and number % 10 by long division, byte by byte
RECURSIVE DivMod10(_, _, _)
DivMod10(bytes, rem, quot) ==
    IF bytes = <<>>
    THEN [q |-> quot, r |-> rem]
    ELSE LET cur == rem * 256 + Head(bytes)
         IN  DivMod10(Tail(bytes), cur % 10, Append(quot, cur \div 10))

IsZero(number) == \A i \in 1..Len(number) : number[i] = 0

RECURSIVE DecimalDigits(_)
DecimalDigits(number) ==
    IF IsZero(number)
    THEN <<>>
    ELSE LET d == DivMod10(number, 0, <<>>)
         IN  Append(DecimalDigits(d.q), LowerHex[d.r + 1])

\* fmt.Sprintf("%d", number)
SprintfD(number) ==
    IF IsZero(number) THEN <<"0">> ELSE DecimalDigits(number)

\* the hex loop of formatOutput from index i on (i is 1-based here)
RECURSIVE HexLoop(_, _, _)
HexLoop(f, rx, i) ==
    IF i > Len(rx)
    THEN <<>>
    ELSE HexByte(rx[i], f.CapsLock)
         \o (IF i < Len(rx) THEN CharFlagOutput(f.InChar) ELSE <<>>)
         \o HexLoop(f, rx, i + 1)

\* the text of the NotifyError call in formatOutput: it has none of the
\* substrings categorizeError looks for
FallbackMessage == {}

\* service.formatOutput(rx) with s.flags = f: the string returned, the flags
\* it leaves behind and the state of the notification manager
formatOutput(cfg, nm, f, uid, t) ==
    LET rx == IF f.Reverse THEN ReverseBytes(uid) ELSE uid
        conv == UIDToUint32(rx)
        failed == f.Decimal /\ conv.err
        f2 == IF failed THEN [f EXCEPT !.Decimal = FALSE] ELSE f
        nm2 == IF failed THEN NotifyErrorOp(cfg, nm, FallbackMessage, t)
                         ELSE nm
        dec == IF f.Decimal /\ ~conv.err THEN SprintfD(conv.number)
                                         ELSE <<>>
        hex == IF ~f2.Decimal THEN HexLoop(f2, rx, 1) ELSE <<>>
    IN  [ output |-> dec \o hex \o CharFlagOutput(f2.EndChar),
          flags |-> f2,
          nm |-> nm2,
          signalled |-> failed ]


\* ---------------------------------------------------------- RestartManager
\* the test of trackSystemFailure, on the counter after the increment
ThresholdReached_gt(cfg, count) ==
    cfg.SelfRestart /\ count > cfg.MaxContextFailures

ThresholdReached(cfg, count) ==
    cfg.SelfRestart /\ count >= cfg.MaxContextFailures

\* rm.contextFailureCount++ : one counter, whatever the operation
NextFailureCount_contextOnly(count, operation) ==
    IF operation = "PC/SC Context" THEN count + 1 ELSE count

NextFailureCount(count, operation) == count + 1

\* SafeExit(1, message, nm): NotifyError(message), release of the
\* single-instance lock, os.Exit(1)
SafeExitOp(cfg, nm, message, t) == NotifyErrorOp(cfg, nm, message, t)

\* keywords the text of a spawn error may bring into the message
\* "Failed to restart application: %v"
SpawnErrorTexts == {{}, {"Reader"}}

\* performSelfRestart(operation): the whole sequence up to os.Exit.
\* exeOk: os.Executable() succeeded; spawnOk: cmd.Start() succeeded.
performSelfRestart(operation, exeOk, spawnOk, errText) ==
    LET nm1 == NotifyInfoOp(config, NmState)
        waits == restartTrace \o <<"notify-trigger", "sleep-settle">>
                 \o (IF config.RestartDelay > 0 THEN <<"sleep-delay">>
                                                ELSE <<>>)
    IN  IF ~exeOk
        THEN LET nm2 == SafeExitOp(config, nm1, {}, now)
             IN  /\ restartTrace' =
                        waits \o <<"notify-error", "release-lock", "exit1">>
                 /\ proc' = "exit1"
                 /\ errorCounts' = nm2.errorCounts
                 /\ lastNotifications' = nm2.lastNotifications
                 /\ delivered' = nm2.delivered
        ELSE IF ~spawnOk
        THEN LET nm2 == NotifyErrorOp(config, nm1, errText, now)
                 nm3 == SafeExitOp(config, nm2, {}, now)
             IN  /\ restartTrace' =
                        waits \o <<"spawn-failed", "notify-error",
                                   "notify-error", "release-lock", "exit1">>
                 /\ proc' = "exit1"
                 /\ errorCounts' = nm3.errorCounts
                 /\ lastNotifications' = nm3.lastNotifications
                 /\ delivered' = nm3.delivered
        ELSE LET nm2 == NotifyInfoOp(config, nm1)
             IN  /\ restartTrace' =
                        waits \o <<"spawn", "notify-started", "exit0">>
                 /\ proc' = "exit0"
                 /\ errorCounts' = nm2.errorCounts
                 /\ lastNotifications' = nm2.lastNotifications
                 /\ delivered' = nm2.delivered

\* the body of trackSystemFailure(operation, err): its effect on the
\* RestartManager, the process and the notifications
trackSystemFailureBody(operation) ==
    /\ proc = "running"
    /\ contextFailureCount < MaxFailures
    /\ hist.run < MaxFailures
    /\ contextFailureCount' = NextFailureCount(contextFailureCount, operation)
    /\ hist' = [hist EXCEPT !.run = @ + 1, !.ops = @ \cup {operation}]
    /\ IF ThresholdReached(config,
                           NextFailureCount(contextFailureCount, operation))
       THEN /\ \E exeOk \in BOOLEAN, spawnOk \in BOOLEAN,
                  errText \in SpawnErrorTexts :
                    performSelfRestart(operation, exeOk, spawnOk, errText)
            /\ lastCall' = [op |-> operation, ret |-> "restart"]
       ELSE /\ lastCall' = [op |-> operation, ret |-> "not triggered"]
            /\ UNCHANGED <<proc, restartTrace, notifyVars>>

\* trackSystemFailure(operation, err) called on its own
trackSystemFailure(operation) ==
    /\ trackSystemFailureBody(operation)
    /\ UNCHANGED <<config, serviceVars, retry, now>>

\* TrackContextFailure(err)
TrackContextFailure == trackSystemFailure("PC/SC Context")

\* TrackSystemFailure(operation, err)
TrackSystemFailure ==
    \E operation \in Operations \ {"PC/SC Context"} :
        trackSystemFailure(operation)

\* ResetFailureCount()
ResetFailureCount_keep ==
    /\ proc = "running"
    /\ lastCall' = [op |-> "ResetFailureCount", ret |-> "reset"]
    /\ hist' = [run |-> 0, ops |-> {}, resetFrom |-> contextFailureCount]
    /\ UNCHANGED <<contextFailureCount, config, serviceVars, proc,
                   restartTrace, retry, notifyVars, now>>

ResetFailureCount ==
    /\ proc = "running"
    /\ contextFailureCount' =
           IF contextFailureCount > 0 THEN 0 ELSE contextFailureCount
    /\ lastCall' = [op |-> "ResetFailureCount", ret |-> "reset"]
    /\ hist' = [run |-> 0, ops |-> {}, resetFrom |-> contextFailureCount]
    /\ UNCHANGED <<config, serviceVars, proc, restartTrace, retry, notifyVars,
                   now>>

\* ------------------------------------------------------------ RetryManager
\* NewRetryManager(config.Advanced.RetryAttempts, config.Advanced.ReconnectDelay)
NewRetryManager(cfg) ==
    [maxAttempts |-> cfg.RetryAttempts, baseDelay |-> cfg.ReconnectDelay]

\* no activation of Retry yet
NewRetry ==
    [pc |-> "idle", attempt |-> 0, lastErr |-> Nil, outcomes |-> <<>>,
     sleeps |-> <<>>, result |-> [status |-> "none", attempts |-> 0,
                                  last |-> Nil]]

\* the configurations the RestartManager is explored under
RestartConfigs ==
    { [DefaultConfig EXCEPT !.SelfRestart = sr, !.MaxContextFailures = m,
                            !.RestartDelay = d, !.Enabled = en,
                            !.ShowErrors = se] :
        sr \in BOOLEAN, m \in 1..MaxThreshold, d \in {0, 10},
        en \in BOOLEAN, se \in BOOLEAN }

\* NewRestartManager, NewNotificationManager in a fresh process
InitRestart ==
    /\ config \in RestartConfigs
    /\ contextFailureCount = 0
    /\ proc = "running"
    /\ restartTrace = <<>>
    /\ lastCall = [op |-> "", ret |-> ""]
    /\ hist = [run |-> 0, ops |-> {}, resetFrom |-> -1]
    /\ retry = NewRetry
    /\ errorCounts = NewErrorCounts
    /\ lastNotifications = NewLastNotifications
    /\ now = 0
    /\ delivered = <<>>
    /\ flags = ToFlags(config)
    /\ card = NoCard

NextRestart ==
    \/ TrackContextFailure
    \/ TrackSystemFailure
    \/ ResetFailureCount

SpecRestart == InitRestart /\ [][NextRestart]_vars


\* delay := time.Duration(attempt) * rm.baseDelay
BackoffDelay_const(attempt, baseDelay) == baseDelay

BackoffDelay(attempt, baseDelay) == attempt * baseDelay

\* the loop condition attempt <= rm.maxAttempts
LoopContinues_lt(attempt, maxAttempts) == attempt < maxAttempts

LoopContinues(attempt, maxAttempts) == attempt <= maxAttempts

\* the sleeps after one call of the operation that returned err:
\* none on success (return nil), none after the final attempt
SleepsAfter_always(sleeps, err, attempt, rm) ==
    IF attempt < rm.maxAttempts
    THEN Append(sleeps, BackoffDelay(attempt, rm.baseDelay))
    ELSE sleeps

SleepsAfter(sleeps, err, attempt, rm) ==
    IF err # Nil /\ attempt < rm.maxAttempts
    THEN Append(sleeps, BackoffDelay(attempt, rm.baseDelay))
    ELSE sleeps

\* fmt.Errorf("operation failed after %d attempts, last error: %v", ...)
AggregatedError(rm, lastErr) ==
    [status |-> "failed", attempts |-> rm.maxAttempts, last |-> lastErr]

\* entry of Retry: var lastErr error; attempt := 1
RetryEnter ==
    /\ retry.pc \in {"idle", "done"}
    /\ LET rm == NewRetryManager(config)
       IN  retry' =
             IF LoopContinues(1, rm.maxAttempts)
             THEN [NewRetry EXCEPT !.pc = "running", !.attempt = 1]
             ELSE [NewRetry EXCEPT !.pc = "done",
                                   !.result = AggregatedError(rm, Nil)]
    /\ UNCHANGED <<config, serviceVars, restartVars, notifyVars, now>>

\* one iteration of the loop of Retry; err is what operation() returns
RetryAttempt(err) ==
    /\ retry.pc = "running"
    /\ LET rm == NewRetryManager(config)
           a == retry.attempt
           outs == Append(retry.outcomes, err)
       IN  retry' =
             IF err = Nil
             THEN [retry EXCEPT !.pc = "done", !.outcomes = outs,
                                !.sleeps = SleepsAfter(@, err, a, rm),
                                !.result = [status |-> "ok", attempts |-> a,
                                            last |-> Nil]]
             ELSE IF LoopContinues(a + 1, rm.maxAttempts)
             THEN [retry EXCEPT !.attempt = a + 1, !.lastErr = err,
                                !.outcomes = outs,
                                !.sleeps = SleepsAfter(@, err, a, rm)]
             ELSE [retry EXCEPT !.pc = "done", !.attempt = a + 1,
                                !.lastErr = err, !.outcomes = outs,
                                !.sleeps = SleepsAfter(@, err, a, rm),
                                !.result = AggregatedError(rm, err)]
    /\ UNCHANGED <<config, serviceVars, restartVars, notifyVars, now>>

\* the operation succeeds
RetryAttemptOk == RetryAttempt(Nil)

\* the operation fails
RetryAttemptFail == \E err \in Errors : RetryAttempt(err)

\* the configurations Retry is explored under
RetryConfigs ==
    { [DefaultConfig EXCEPT !.RetryAttempts = n, !.ReconnectDelay = d] :
        n \in 1..MaxAttempts, d \in 0..MaxBaseDelay }

InitRetry ==
    /\ config \in RetryConfigs
    /\ contextFailureCount = 0
    /\ proc = "running"
    /\ restartTrace = <<>>
    /\ lastCall = [op |-> "", ret |-> ""]
    /\ hist = [run |-> 0, ops |-> {}, resetFrom |-> -1]
    /\ retry = NewRetry
    /\ errorCounts = NewErrorCounts
    /\ lastNotifications = NewLastNotifications
    /\ now = 0
    /\ delivered = <<>>
    /\ flags = ToFlags(config)
    /\ card = NoCard

NextRetry ==
    \/ RetryEnter
    \/ RetryAttemptOk
    \/ RetryAttemptFail

SpecRetry == InitRetry /\ [][NextRetry]_vars


\* ------------------------------------------- NotificationManager, driven
RECURSIVE SumOver(_, _)
SumOver(f, S) ==
    IF S = {} THEN 0
    ELSE LET c == CHOOSE x \in S : TRUE
         IN  f[c] + SumOver(f, S \ {c})

\* the error types that have an entry in lastNotifications
Notified == {c \in ErrorTypes : lastNotifications[c] # NoTime}

\* exploration bound on the reports of errorType
CanReport(errorType) ==
    /\ errorCounts[errorType] < MaxCalls
    /\ Cardinality(Notified \cup {errorType}) <= MaxTypes
    /\ \/ Notified \subseteq {errorType}
       \/ SumOver(errorCounts, ErrorTypes) < MaxMixed

\* the messages passed to NotifyError: none or one of the substrings, and
\* two messages in which an earlier case of the switch wins
Messages ==
    {{}} \cup {{k} : k \in Keywords}
         \cup {{"PC/SC Context", "Reader"}, {"Card", "Service"}}

SetNm(nm) ==
    /\ errorCounts' = nm.errorCounts
    /\ lastNotifications' = nm.lastNotifications
    /\ delivered' = nm.delivered

\* a caller reports errorType through NotifyErrorThrottled
NotifyErrorThrottled ==
    \E errorType \in ErrorTypes :
        /\ CanReport(errorType)
        /\ SetNm(NotifyErrorThrottledOp(config, NmState, errorType, now))
        /\ UNCHANGED <<config, serviceVars, restartVars, retry, now>>

\* a caller reports message through NotifyError
NotifyError ==
    \E message \in Messages :
        /\ CanReport(categorizeError(message))
        /\ SetNm(NotifyErrorOp(config, NmState, message, now))
        /\ UNCHANGED <<config, serviceVars, restartVars, retry, now>>

\* the service reports a successful card read
NotifySuccess ==
    /\ SetNm(NotifySuccessOp(config, NmState))
    /\ UNCHANGED <<config, serviceVars, restartVars, retry, now>>

\* a minute passes
Tick ==
    /\ now < MaxNow
    /\ now' = now + 1
    /\ UNCHANGED <<config, serviceVars, restartVars, retry, notifyVars>>

\* the notification settings explored
NotifyConfigs ==
    { [DefaultConfig EXCEPT !.Enabled = en, !.ShowSuccess = ss,
                            !.ShowErrors = se] :
        en \in BOOLEAN, ss \in BOOLEAN, se \in BOOLEAN }

InitNotify ==
    /\ config \in NotifyConfigs
    /\ contextFailureCount = 0
    /\ proc = "running"
    /\ restartTrace = <<>>
    /\ lastCall = [op |-> "", ret |-> ""]
    /\ hist = [run |-> 0, ops |-> {}, resetFrom |-> -1]
    /\ retry = NewRetry
    /\ errorCounts = NewErrorCounts
    /\ lastNotifications = NewLastNotifications
    /\ now = 0
    /\ delivered = <<>>
    /\ flags = ToFlags(config)
    /\ card = NoCard

NextNotify ==
    \/ NotifyErrorThrottled
    \/ NotifyError
    \/ NotifySuccess
    \/ Tick

SpecNotify == InitNotify /\ [][NextNotify]_vars

\* ------------------------------------------- cardReadingLoop / processCard
\* The processing of the cards the reader detects, step by step: card.pc is
\* the position in cardReadingLoop / processCard.

\* the UIDs the cards answer with: a 4-byte and a 7-byte UID
CardUids == { <<4, 174, 101, 202>>, <<4, 174, 101, 202, 18, 52, 86>> }

\* the text of the NotifyError call after waitUntilCardRelease failed: it
\* has none of the substrings categorizeError looks for
ReleaseMessage == {}

\* exploration bound on the occurrence counts
WithinCardErrors(nm) ==
    \A c \in ErrorTypes : nm.errorCounts[c] <= MaxCardErrors

\* waitForCardWithRetry returned the index of a reader with a card
CardPresent ==
    /\ proc = "running"
    /\ card.pc = "waiting"
    /\ card' = [card EXCEPT !.pc = "connect", !.attempt = 1, !.calls = <<>>]
    /\ UNCHANGED <<config, restartVars, retry, notifyVars, now, flags>>

\* an attempt of ctx.Connect inside Retry succeeds
ConnectOk ==
    /\ proc = "running"
    /\ card.pc = "connect"
    /\ card' = [card EXCEPT !.pc = "read", !.calls = <<>>]
    /\ UNCHANGED <<config, restartVars, retry, notifyVars, now, flags>>

\* an attempt of ctx.Connect inside Retry fails: TrackSystemFailure, then
\* the next attempt, or processCard returns the error after the last one
ConnectFails ==
    /\ card.pc = "connect"
    /\ trackSystemFailureBody("Reader Connection")
    /\ card' = IF proc' # "running"
               THEN [card EXCEPT !.pc = "exited", !.calls = <<>>]
               ELSE IF LoopContinues(card.attempt + 1, config.RetryAttempts)
               THEN [card EXCEPT !.attempt = @ + 1, !.calls = <<>>]
               ELSE [card EXCEPT !.pc = "failed", !.op = "processCard",
                                 !.ret = "failed to connect to card",
                                 !.calls = <<>>]
    /\ UNCHANGED <<config, retry, now, flags>>

\* processCard from readCardUID to NotifySuccess. readOk: readCardUID
\* returned the UID read; kbOk: KeyboardWrite succeeded.
EmitCard ==
    /\ proc = "running"
    /\ card.pc = "read"
    /\ \E read \in CardUids, readOk \in BOOLEAN, kbOk \in BOOLEAN :
        IF ~readOk
        THEN /\ card' = [card EXCEPT !.pc = "failed", !.op = "processCard",
                                     !.ret = "read failed", !.calls = <<>>]
             /\ UNCHANGED <<notifyVars, flags>>
        ELSE \E fo \in {formatOutput(config, NmState, flags, read, now)} :
             LET signal == IF fo.signalled THEN <<"NotifyError">> ELSE <<>>
             IN  IF ~kbOk
                 THEN \E nm \in {NotifyErrorThrottledOp(
                                     config, fo.nm, "keyboard-error", now)} :
                          /\ WithinCardErrors(nm)
                          /\ SetNm(nm)
                          /\ flags' = fo.flags
                          /\ card' = [card EXCEPT
                                 !.pc = "failed", !.op = "processCard",
                                 !.uid = read, !.output = fo.output,
                                 !.ret = "failed to write keyboard output",
                                 !.calls = signal \o <<"NotifyErrorThrottled">>]
                 ELSE \E nm \in {NotifySuccessOp(config, fo.nm)} :
                          /\ WithinCardErrors(fo.nm)
                          /\ SetNm(nm)
                          /\ flags' = fo.flags
                          /\ card' = [card EXCEPT
                                 !.pc = "release", !.uid = read,
                                 !.output = fo.output, !.ret = Nil,
                                 !.calls = signal \o <<"NotifySuccess">>]
    /\ UNCHANGED <<config, restartVars, retry, now>>

\* waitUntilCardRelease sees the card leave; processCard returns nil
ReleaseOk ==
    /\ proc = "running"
    /\ card.pc = "release"
    /\ card' = [NoCard EXCEPT !.op = "processCard"]
    /\ UNCHANGED <<config, restartVars, retry, notifyVars, now, flags>>

\* GetStatusChange fails in waitUntilCardRelease: TrackSystemFailure
ReleaseFails ==
    /\ card.pc = "release"
    /\ trackSystemFailureBody("Reader Status Monitoring")
    /\ card' = IF proc' # "running"
               THEN [card EXCEPT !.pc = "exited", !.calls = <<>>]
               ELSE [card EXCEPT !.pc = "release-failed", !.calls = <<>>]
    /\ UNCHANGED <<config, retry, now, flags>>

\* processCard after waitUntilCardRelease returned an error: NotifyError,
\* and the read still counts as done
ReleaseFailed_error ==
    /\ proc = "running"
    /\ card.pc = "release-failed"
    /\ LET nm == NotifyErrorOp(config, NmState, ReleaseMessage, now)
       IN  /\ WithinCardErrors(nm)
           /\ SetNm(nm)
    /\ card' = [card EXCEPT !.pc = "failed", !.op = "processCard",
                            !.ret = "release failed",
                            !.calls = <<"NotifyError">>]
    /\ UNCHANGED <<config, restartVars, retry, now, flags>>

ReleaseFailed ==
    /\ proc = "running"
    /\ card.pc = "release-failed"
    /\ LET nm == NotifyErrorOp(config, NmState, ReleaseMessage, now)
       IN  /\ WithinCardErrors(nm)
           /\ SetNm(nm)
    /\ card' = [NoCard EXCEPT !.op = "processCard",
                              !.calls = <<"NotifyError">>]
    /\ UNCHANGED <<config, restartVars, retry, now, flags>>

\* cardReadingLoop after processCard returned an error
CardFailed_returns ==
    /\ proc = "running"
    /\ card.pc = "failed"
    /\ LET nm == NotifyErrorThrottledOp(config, NmState, "card-error", now)
       IN  /\ WithinCardErrors(nm)
           /\ SetNm(nm)
    /\ card' = [card EXCEPT !.pc = "exited",
                            !.calls = <<"NotifyErrorThrottled">>]
    /\ UNCHANGED <<config, restartVars, retry, now, flags>>

CardFailed ==
    /\ proc = "running"
    /\ card.pc = "failed"
    /\ LET nm == NotifyErrorThrottledOp(config, NmState, "card-error", now)
       IN  /\ WithinCardErrors(nm)
           /\ SetNm(nm)
    /\ card' = [NoCard EXCEPT !.op = "processCard", !.ret = card.ret,
                              !.calls = <<"NotifyErrorThrottled">>]
    /\ UNCHANGED <<config, restartVars, retry, now, flags>>

\* a minute passes while the loop waits for a card
CardTick ==
    /\ proc = "running"
    /\ card.pc = "waiting"
    /\ now < MaxCardNow
    /\ now' = now + 1
    /\ UNCHANGED <<config, restartVars, retry, notifyVars, serviceVars>>

\* the settings the card loop is explored under: every notification
\* setting, hex and decimal, retry_attempts 2, max_context_failures 3
CardConfigs ==
    { [DefaultConfig EXCEPT !.Enabled = en, !.ShowSuccess = ss,
                            !.ShowErrors = se, !.Decimal = d,
                            !.RetryAttempts = 2, !.MaxContextFailures = 3] :
        en \in BOOLEAN, ss \in BOOLEAN, se \in BOOLEAN, d \in BOOLEAN }

InitCard ==
    /\ config \in CardConfigs
    /\ contextFailureCount = 0
    /\ proc = "running"
    /\ restartTrace = <<>>
    /\ lastCall = [op |-> "", ret |-> ""]
    /\ hist = [run |-> 0, ops |-> {}, resetFrom |-> -1]
    /\ retry = NewRetry
    /\ errorCounts = NewErrorCounts
    /\ lastNotifications = NewLastNotifications
    /\ now = 0
    /\ delivered = <<>>
    /\ flags = ToFlags(config)
    /\ card = NoCard

NextCard ==
    \/ CardPresent
    \/ ConnectOk
    \/ ConnectFails
    \/ EmitCard
    \/ ReleaseOk
    \/ ReleaseFails
    \/ ReleaseFailed
    \/ CardFailed
    \/ CardTick

SpecCard == InitCard /\ [][NextCard]_vars

\* ------------------------------------------------------------ formatOutput
\* formatOutput on its own, called with one UID after the other.

\* card answers, ten bytes each; the UIDs are their prefixes
UidSamples ==
    { <<4, 174, 101, 202, 18, 52, 86, 120, 154, 188>>,
      <<0, 0, 0, 0, 1, 0, 0, 128, 255, 9>>,
      <<255, 255, 255, 255, 15, 240, 160, 10, 0, 1>>,
      <<0, 0, 0, 128, 171, 205, 239, 16, 32, 48>> }

Uids == { SubSeq(u, 1, n) : u \in UidSamples, n \in 0..MaxUidLen }

\* values of -decimal-padding / decimal_padding explored
DecimalPaddings == {0, 10}

\* values of -in-char and -end-char explored: every character in one of
\* the two places
CharPairs ==
    { <<ic, ec>> \in CharFlags \X CharFlags :
        ic \in {"none", "hyphen"} \/ ec \in {"none", "enter"} }

\* the output formats explored
CodecConfigs ==
    { [DefaultConfig EXCEPT !.CapsLock = cl, !.Reverse = rv, !.Decimal = d,
                            !.DecimalPadding = dp, !.InChar = ce[1],
                            !.EndChar = ce[2]] :
        cl \in BOOLEAN, rv \in BOOLEAN, d \in BOOLEAN,
        dp \in DecimalPaddings, ce \in CharPairs }

\* s.formatOutput(uid)
FormatOutput ==
    \E uid \in Uids :
        \E fo \in {formatOutput(config, NmState, flags, uid, now)} :
            /\ SetNm(fo.nm)
            /\ flags' = fo.flags
            /\ card' = [NoCard EXCEPT
                   !.op = "formatOutput", !.uid = uid, !.output = fo.output,
                   !.calls = IF fo.signalled THEN <<"NotifyError">>
                                             ELSE <<>>]
            /\ UNCHANGED <<config, restartVars, retry, now>>

InitCodec ==
    /\ config \in CodecConfigs
    /\ contextFailureCount = 0
    /\ proc = "running"
    /\ restartTrace = <<>>
    /\ lastCall = [op |-> "", ret |-> ""]
    /\ hist = [run |-> 0, ops |-> {}, resetFrom |-> -1]
    /\ retry = NewRetry
    /\ errorCounts = NewErrorCounts
    /\ lastNotifications = NewLastNotifications
    /\ now = 0
    /\ delivered = <<>>
    /\ flags = ToFlags(config)
    /\ card = NoCard

NextCodec == FormatOutput

SpecCodec == InitCodec /\ [][NextCodec]_vars


\* ------------------------------------------------------------- readCardUID
\* readCardUID on its own: the GET DATA exchange inside Retry, one
\* transmission per step. card holds the locals of the call.

\* cmd := []byte{0xFF, 0xCA, 0x00, 0x00, 0x00}
GetDataCommand == <<255, 202, 0, 0, 0>>

\* successResponseCode := []byte{0x90, 0x00}
SuccessResponseCode == <<144, 0>>

\* the bytes the responses are made of: the two of the success trailer,
\* a UID byte and the first byte of the trailer 63 00
RspBytes == {0, 4, 99, 144}

\* what card.Transmit can return as rsp
Responses == UNION { [1..n -> RspBytes] : n \in 0..MaxRspLen }

\* rsp[len(rsp)-2:]
LastTwo(rsp) == SubSeq(rsp, Len(rsp) - 1, Len(rsp))

\* the closure handed to Retry, after card.Transmit returned: the error it
\* returns and the value it leaves in uidBytes
ReadOperation_noLength(uidBytes, transmitOk, rsp) ==
    IF ~transmitOk
    THEN [err |-> "card transmission failed", uidBytes |-> uidBytes]
    ELSE IF Len(rsp) >= 2 /\ LastTwo(rsp) # SuccessResponseCode
    THEN [err |-> "card operation failed", uidBytes |-> uidBytes]
    ELSE [err |-> Nil,
          uidBytes |-> SubSeq(rsp, 1, IF Len(rsp) >= 2 THEN Len(rsp) - 2
                                      ELSE 0)]

ReadOperation_anyTrailer(uidBytes, transmitOk, rsp) ==
    IF ~transmitOk
    THEN [err |-> "card transmission failed", uidBytes |-> uidBytes]
    ELSE IF Len(rsp) < 2
    THEN [err |-> "insufficient response bytes from card",
          uidBytes |-> uidBytes]
    ELSE [err |-> Nil, uidBytes |-> SubSeq(rsp, 1, Len(rsp) - 2)]

ReadOperation(uidBytes, transmitOk, rsp) ==
    IF ~transmitOk
    THEN [err |-> "card transmission failed", uidBytes |-> uidBytes]
    ELSE IF Len(rsp) < 2
    THEN [err |-> "insufficient response bytes from card",
          uidBytes |-> uidBytes]
    ELSE IF LastTwo(rsp) # SuccessResponseCode
    THEN [err |-> "card operation failed", uidBytes |-> uidBytes]
    ELSE [err |-> Nil, uidBytes |-> SubSeq(rsp, 1, Len(rsp) - 2)]

\* no call of readCardUID yet
NoRead == [op |-> "none", pc |-> "idle", attempt |-> 0, cmd |-> <<>>,
           transmitOk |-> FALSE, rsp |-> <<>>, err |-> Nil,
           uidBytes |-> <<>>, ret |-> Nil]

\* entry of readCardUID: var uidBytes []byte, and Retry's attempt := 1
ReadEnter ==
    /\ card.pc \in {"idle", "returned"}
    /\ card' = IF LoopContinues(1, config.RetryAttempts)
               THEN [NoRead EXCEPT !.op = "readCardUID", !.pc = "transmit",
                                   !.attempt = 1]
               ELSE [NoRead EXCEPT !.op = "readCardUID", !.pc = "returned",
                                   !.ret = "operation failed"]
    /\ UNCHANGED <<config, restartVars, retry, notifyVars, now, flags>>

\* one attempt: the command is sent, card.Transmit returns, the closure
\* decides; Retry returns nil, goes on, or gives up
ReadTransmit ==
    /\ card.pc = "transmit"
    /\ \E transmitOk \in BOOLEAN, rsp \in Responses :
        \E r \in {ReadOperation(card.uidBytes, transmitOk, rsp)} :
            card' = [card EXCEPT
                !.cmd = GetDataCommand,
                !.transmitOk = transmitOk,
                !.rsp = IF transmitOk THEN rsp ELSE <<>>,
                !.err = r.err,
                !.uidBytes = r.uidBytes,
                !.attempt = IF r.err = Nil THEN @ ELSE @ + 1,
                !.pc = IF r.err = Nil THEN "returned"
                       ELSE IF LoopContinues(card.attempt + 1,
                                             config.RetryAttempts)
                       THEN "transmit" ELSE "returned",
                !.ret = IF r.err = Nil THEN Nil ELSE "operation failed"]
    /\ UNCHANGED <<config, restartVars, retry, notifyVars, now, flags>>

\* the settings readCardUID is explored under
ReadConfigs ==
    { [DefaultConfig EXCEPT !.RetryAttempts = n] : n \in 1..2 }

InitRead ==
    /\ config \in ReadConfigs
    /\ contextFailureCount = 0
    /\ proc = "running"
    /\ restartTrace = <<>>
    /\ lastCall = [op |-> "", ret |-> ""]
    /\ hist = [run |-> 0, ops |-> {}, resetFrom |-> -1]
    /\ retry = NewRetry
    /\ errorCounts = NewErrorCounts
    /\ lastNotifications = NewLastNotifications
    /\ now = 0
    /\ delivered = <<>>
    /\ flags = ToFlags(config)
    /\ card = NoRead

NextRead ==
    \/ ReadEnter
    \/ ReadTransmit

SpecRead == InitRead /\ [][NextRead]_vars


\* --------------------------------------------------- Start / runServiceLoop
\* The service loop, step by step: card.pc is the position of the watcher
\* in Start, runServiceLoop, cardReadingLoop and processCard, card.ctx
\* tells whether a PC/SC context is held, card.err is the error being
\* handled; card.contexts and card.cards count the PC/SC contexts
\* established and not released and the cards connected and not
\* disconnected; card.readers is the length of the reader list of the last
\* enumeration.

\* the text of SafeExit(1, "Service stopped due to error", ...)
StoppedMessage == {"Service"}

\* Start has just been called; sleep is the time.Sleep of Start before the
\* iteration that is about to begin, NoTime when there was none
NoService == [op |-> "Start", pc |-> "ContextPending", attempt |-> 1,
              ctx |-> FALSE, everCtx |-> FALSE, err |-> Nil,
              sleep |-> NoTime, contexts |-> 0, cards |-> 0,
              readers |-> 0]

\* exploration bound on the occurrence counts of a process that goes on
WithinServiceErrors(nm) ==
    \A c \in ErrorTypes : nm.errorCounts[c] <= MaxServiceErrors

\* an attempt of scard.EstablishContext inside Retry succeeds, the failure
\* counter left as it is
EstablishOk_noReset ==
    /\ proc = "running"
    /\ card.pc = "ContextPending"
    /\ card' = [card EXCEPT !.pc = "ListReaders", !.attempt = 1,
                            !.ctx = TRUE, !.everCtx = TRUE, !.err = Nil,
                            !.sleep = NoTime, !.contexts = @ + 1]
    /\ UNCHANGED <<config, restartVars, retry, notifyVars, now, flags>>

\* an attempt of scard.EstablishContext inside Retry succeeds:
\* ResetFailureCount, and the context is held until runServiceLoop returns
EstablishOk ==
    /\ proc = "running"
    /\ card.pc = "ContextPending"
    /\ contextFailureCount' =
           IF contextFailureCount > 0 THEN 0 ELSE contextFailureCount
    /\ lastCall' = [op |-> "ResetFailureCount", ret |-> "reset"]
    /\ hist' = [run |-> 0, ops |-> {}, resetFrom |-> contextFailureCount]
    /\ card' = [card EXCEPT !.pc = "ListReaders", !.attempt = 1,
                            !.ctx = TRUE, !.everCtx = TRUE, !.err = Nil,
                            !.sleep = NoTime, !.contexts = @ + 1]
    /\ UNCHANGED <<config, proc, restartTrace, retry, notifyVars, now, flags>>

\* an attempt of scard.EstablishContext fails: TrackContextFailure, then
\* the next attempt, or runServiceLoop returns the error of Retry
EstablishFails ==
    /\ card.pc = "ContextPending"
    /\ trackSystemFailureBody("PC/SC Context")
    /\ card' = IF proc' # "running"
               THEN [card EXCEPT !.pc = "exited", !.sleep = NoTime]
               ELSE IF LoopContinues(card.attempt + 1, config.RetryAttempts)
               THEN [card EXCEPT !.attempt = @ + 1, !.sleep = NoTime]
               ELSE [card EXCEPT
                       !.pc = "LoopFailed", !.attempt = 1, !.sleep = NoTime,
                       !.err = "failed to establish PC/SC context"]
    /\ UNCHANGED <<config, retry, now, flags>>

\* ctx.ListReaders fails and runServiceLoop returns the error, the context
\* not released
ListReadersFails_keepsContext ==
    /\ card.pc = "ListReaders"
    /\ trackSystemFailureBody("Reader Enumeration")
    /\ card' = IF proc' # "running"
               THEN [card EXCEPT !.pc = "exited"]
               ELSE [card EXCEPT !.pc = "LoopFailed", !.ctx = FALSE,
                                 !.err = "failed to list readers"]
    /\ UNCHANGED <<config, retry, now, flags>>

\* ctx.ListReaders fails: TrackSystemFailure("Reader Enumeration"), the
\* deferred ctx.Release, and runServiceLoop returns the error
ListReadersFails ==
    /\ card.pc = "ListReaders"
    /\ trackSystemFailureBody("Reader Enumeration")
    /\ card' = IF proc' # "running"
               THEN [card EXCEPT !.pc = "exited"]
               ELSE [card EXCEPT !.pc = "LoopFailed", !.ctx = FALSE,
                                 !.contexts = @ - 1,
                                 !.err = "failed to list readers"]
    /\ UNCHANGED <<config, retry, now, flags>>

\* selectDevice(readers) with n readers: the device the service goes on
\* with, or 0 where it returns an error. interactive is the number typed
\* at the prompt that is accepted, asked for when Device is 0.
selectDevice_clamped(device, n, interactive) ==
    IF device = 0 THEN interactive
    ELSE IF device > n THEN n ELSE device

selectDevice_unchecked(device, n, interactive) ==
    IF device = 0 THEN interactive ELSE device

selectDevice(device, n, interactive) ==
    IF device = 0 THEN interactive
    ELSE IF device < 1 \/ device > n THEN 0 ELSE device

\* runServiceLoop from ctx.ListReaders to the call of cardReadingLoop, with
\* n readers attached; kbOk: keybd_event.NewKeyBonding succeeded
ListReadersOk ==
    /\ proc = "running"
    /\ card.pc = "ListReaders"
    /\ \E n \in 0..MaxReaders, kbOk \in BOOLEAN :
        IF n < 1
        THEN /\ card' = [card EXCEPT !.pc = "LoopFailed", !.ctx = FALSE,
                                     !.contexts = @ - 1, !.readers = n,
                                     !.err = "no readers"]
             /\ flags' = flags
        ELSE \E interactive \in 1..n :
             \E d \in {selectDevice(flags.Device, n, interactive)} :
                IF d = 0
                THEN /\ card' = [card EXCEPT
                                   !.pc = "LoopFailed", !.ctx = FALSE,
                                   !.contexts = @ - 1, !.readers = n,
                                   !.err = "device number out of range"]
                     /\ flags' = flags
                ELSE /\ flags' = [flags EXCEPT !.Device = d]
                     /\ card' = IF kbOk
                                THEN [card EXCEPT !.pc = "AwaitingCard",
                                                  !.attempt = 1,
                                                  !.readers = n]
                                ELSE [card EXCEPT
                                        !.pc = "LoopFailed", !.ctx = FALSE,
                                        !.contexts = @ - 1, !.readers = n,
                                        !.err = "failed to create keyboard"]
    /\ UNCHANGED <<config, restartVars, retry, notifyVars, now>>

\* an attempt of waitUntilCardPresent inside Retry fails, the failure
\* not reported to the restart manager
WaitForCardFails_untracked ==
    /\ proc = "running"
    /\ card.pc = "AwaitingCard"
    /\ card' = IF LoopContinues(card.attempt + 1, config.RetryAttempts)
               THEN [card EXCEPT !.attempt = @ + 1, !.err = Nil]
               ELSE [card EXCEPT !.pc = "WaitFailed", !.attempt = 1,
                                 !.err = "card wait failed"]
    /\ UNCHANGED <<config, restartVars, retry, notifyVars, now, flags>>

\* an attempt of waitUntilCardPresent inside Retry fails:
\* TrackSystemFailure("Reader Status Monitoring"), then the next attempt,
\* or waitForCardWithRetry returns the error of Retry
WaitForCardFails ==
    /\ card.pc = "AwaitingCard"
    /\ trackSystemFailureBody("Reader Status Monitoring")
    /\ card' = IF proc' # "running"
               THEN [card EXCEPT !.pc = "exited"]
               ELSE IF LoopContinues(card.attempt + 1, config.RetryAttempts)
               THEN [card EXCEPT !.attempt = @ + 1, !.err = Nil]
               ELSE [card EXCEPT !.pc = "WaitFailed", !.attempt = 1,
                                 !.err = "card wait failed"]
    /\ UNCHANGED <<config, retry, now, flags>>

\* cardReadingLoop after waitForCardWithRetry returned an error: with
\* auto_reconnect it continues, else it returns the error and the deferred
\* ctx.Release of runServiceLoop runs
WaitFailed ==
    /\ proc = "running"
    /\ card.pc = "WaitFailed"
    /\ \E nm \in {NotifyErrorThrottledOp(config, NmState, "card-error", now)} :
           /\ WithinServiceErrors(nm)
           /\ SetNm(nm)
    /\ card' = IF config.AutoReconnect
               THEN [card EXCEPT !.pc = "AwaitingCard"]
               ELSE [card EXCEPT !.pc = "LoopFailed", !.ctx = FALSE,
                                 !.contexts = @ - 1]
    /\ UNCHANGED <<config, restartVars, retry, now, flags>>

\* waitForCardWithRetry returns the reader a card is present on:
\* cardReadingLoop calls processCard
CardDetected ==
    /\ proc = "running"
    /\ card.pc = "AwaitingCard"
    /\ card' = [card EXCEPT !.pc = "CardPresent", !.attempt = 1, !.err = Nil]
    /\ UNCHANGED <<config, restartVars, retry, notifyVars, now, flags>>

\* an attempt of ctx.Connect inside the Retry of processCard fails:
\* TrackSystemFailure("Reader Connection"), then the next attempt, or
\* processCard returns the error of Retry
ConnectCardFails ==
    /\ card.pc = "CardPresent"
    /\ trackSystemFailureBody("Reader Connection")
    /\ card' = IF proc' # "running"
               THEN [card EXCEPT !.pc = "exited"]
               ELSE IF LoopContinues(card.attempt + 1, config.RetryAttempts)
               THEN [card EXCEPT !.attempt = @ + 1]
               ELSE [card EXCEPT !.pc = "CardFailed", !.attempt = 1,
                                 !.err = "failed to connect to card"]
    /\ UNCHANGED <<config, retry, now, flags>>

\* an attempt of ctx.Connect succeeds: the card is held until processCard
\* returns
ConnectCardOk ==
    /\ proc = "running"
    /\ card.pc = "CardPresent"
    /\ card' = [card EXCEPT !.pc = "CardConnected", !.attempt = 1,
                            !.cards = @ + 1]
    /\ UNCHANGED <<config, restartVars, retry, notifyVars, now, flags>>

\* processCard from readCardUID to the call of waitUntilCardRelease: the
\* UID is read and written, or processCard returns an error and the
\* deferred card.Disconnect runs
ProcessCard ==
    /\ proc = "running"
    /\ card.pc = "CardConnected"
    /\ \E ok \in BOOLEAN :
        card' = IF ok
                THEN [card EXCEPT !.pc = "AwaitingRelease"]
                ELSE [card EXCEPT !.pc = "CardFailed", !.cards = @ - 1,
                                  !.err = "processCard failed"]
    /\ UNCHANGED <<config, restartVars, retry, notifyVars, now, flags>>

\* cardReadingLoop after processCard returned an error: the card-error
\* notification, and the loop continues
ProcessCardFailed ==
    /\ proc = "running"
    /\ card.pc = "CardFailed"
    /\ \E nm \in {NotifyErrorThrottledOp(config, NmState, "card-error", now)} :
           /\ WithinServiceErrors(nm)
           /\ SetNm(nm)
    /\ card' = [card EXCEPT !.pc = "AwaitingCard"]
    /\ UNCHANGED <<config, restartVars, retry, now, flags>>

\* waitUntilCardRelease sees the reader empty, with the failure counter
\* reset after the read
CardReleased_resets ==
    /\ proc = "running"
    /\ card.pc = "AwaitingRelease"
    /\ card' = [card EXCEPT !.pc = "AwaitingCard", !.cards = @ - 1]
    /\ contextFailureCount' = 0
    /\ UNCHANGED <<config, proc, restartTrace, lastCall, hist, retry,
                   notifyVars, now, flags>>

\* waitUntilCardRelease sees the reader empty: processCard returns nil and
\* the deferred card.Disconnect runs
CardReleased ==
    /\ proc = "running"
    /\ card.pc = "AwaitingRelease"
    /\ card' = [card EXCEPT !.pc = "AwaitingCard", !.cards = @ - 1]
    /\ UNCHANGED <<config, restartVars, retry, notifyVars, now, flags>>

\* GetStatusChange fails in waitUntilCardRelease:
\* TrackSystemFailure("Reader Status Monitoring") and the error is returned
CardReleaseFails ==
    /\ card.pc = "AwaitingRelease"
    /\ trackSystemFailureBody("Reader Status Monitoring")
    /\ card' = IF proc' # "running"
               THEN [card EXCEPT !.pc = "exited"]
               ELSE [card EXCEPT !.pc = "ReleaseFailed"]
    /\ UNCHANGED <<config, retry, now, flags>>

\* processCard after waitUntilCardRelease returned an error: NotifyError,
\* processCard returns nil and the deferred card.Disconnect runs
CardReleaseFailed ==
    /\ proc = "running"
    /\ card.pc = "ReleaseFailed"
    /\ \E nm \in {NotifyErrorOp(config, NmState, ReleaseMessage, now)} :
           /\ WithinServiceErrors(nm)
           /\ SetNm(nm)
    /\ card' = [card EXCEPT !.pc = "AwaitingCard", !.cards = @ - 1]
    /\ UNCHANGED <<config, restartVars, retry, now, flags>>

\* Start after runServiceLoop returned an error: the service-error
\* notification, then the sleep and the next iteration with
\* auto_reconnect, else SafeExit(1, ...)
ServiceFailed_neverRetries ==
    /\ proc = "running"
    /\ card.pc = "LoopFailed"
    /\ \E nm1 \in {NotifyErrorThrottledOp(
                       config, NmState, "service-error", now)} :
        \E nm2 \in {SafeExitOp(config, nm1, StoppedMessage, now)} :
             /\ WithinServiceErrors(nm2)
             /\ SetNm(nm2)
             /\ proc' = "exit1"
             /\ card' = [card EXCEPT !.pc = "exited"]
    /\ UNCHANGED <<config, contextFailureCount, restartTrace, lastCall, hist,
                   retry, now, flags>>

ServiceFailed_alwaysRetries ==
    /\ proc = "running"
    /\ card.pc = "LoopFailed"
    /\ \E nm \in {NotifyErrorThrottledOp(
                      config, NmState, "service-error", now)} :
           /\ WithinServiceErrors(nm)
           /\ SetNm(nm)
    /\ proc' = proc
    /\ card' = [card EXCEPT !.pc = "ContextPending", !.attempt = 1,
                            !.sleep = config.ReconnectDelay]
    /\ UNCHANGED <<config, contextFailureCount, restartTrace, lastCall, hist,
                   retry, now, flags>>

ServiceFailed ==
    /\ proc = "running"
    /\ card.pc = "LoopFailed"
    /\ \E nm1 \in {NotifyErrorThrottledOp(
                       config, NmState, "service-error", now)} :
        IF config.AutoReconnect
        THEN /\ WithinServiceErrors(nm1)
             /\ SetNm(nm1)
             /\ proc' = proc
             /\ card' = [card EXCEPT !.pc = "ContextPending", !.attempt = 1,
                                     !.sleep = config.ReconnectDelay]
        ELSE \E nm2 \in {SafeExitOp(config, nm1, StoppedMessage, now)} :
             /\ WithinServiceErrors(nm1)
             /\ SetNm(nm2)
             /\ proc' = "exit1"
             /\ card' = [card EXCEPT !.pc = "exited"]
    /\ UNCHANGED <<config, contextFailureCount, restartTrace, lastCall, hist,
                   retry, now, flags>>

\* the settings the service loop is explored under; max_context_failures
\* is not read with self_restart off, and is left at one value then
ServiceConfigs ==
    { c \in { [DefaultConfig EXCEPT
                  !.AutoReconnect = ar, !.SelfRestart = sr,
                  !.RetryAttempts = n, !.MaxContextFailures = m,
                  !.Device = d] :
                ar \in BOOLEAN, sr \in BOOLEAN, n \in 1..MaxServiceAttempts,
                m \in 1..MaxServiceThreshold, d \in 0..(MaxReaders + 1) } :
        c.SelfRestart \/ c.MaxContextFailures = MaxServiceThreshold }

InitService ==
    /\ config \in ServiceConfigs
    /\ contextFailureCount = 0
    /\ proc = "running"
    /\ restartTrace = <<>>
    /\ lastCall = [op |-> "", ret |-> ""]
    /\ hist = [run |-> 0, ops |-> {}, resetFrom |-> -1]
    /\ retry = NewRetry
    /\ errorCounts = NewErrorCounts
    /\ lastNotifications = NewLastNotifications
    /\ now = 0
    /\ delivered = <<>>
    /\ flags = ToFlags(config)
    /\ card = NoService

NextService ==
    \/ EstablishOk
    \/ EstablishFails
    \/ ListReadersFails
    \/ ListReadersOk
    \/ WaitForCardFails
    \/ WaitFailed
    \/ CardDetected
    \/ ConnectCardFails
    \/ ConnectCardOk
    \/ ProcessCard
    \/ ProcessCardFailed
    \/ CardReleased
    \/ CardReleaseFails
    \/ CardReleaseFailed
    \/ ServiceFailed

SpecService == InitService /\ [][NextService]_vars

\* ---------------------------------------------------- the watcher, fair
\* The service loop with its environment: card.callsOk tells that from now
\* on every smartcard call succeeds and the readers listed hold the
\* selected device, card.keyboardOk that from now on
\* keybd_event.NewKeyBonding succeeds. The watcher is one goroutine that
\* is never blocked by another one: a step it can take is taken.

\* Start has just been called and the environment is still faulty
NoRecovery == [op |-> "Start", pc |-> "ContextPending", attempt |-> 1,
               ctx |-> FALSE, everCtx |-> FALSE, err |-> Nil,
               sleep |-> NoTime, contexts |-> 0, cards |-> 0,
               readers |-> 0, callsOk |-> FALSE, keyboardOk |-> FALSE]

\* the smartcard subsystem recovers
SmartcardHeals ==
    /\ proc = "running"
    /\ ~card.callsOk
    /\ card' = [card EXCEPT !.callsOk = TRUE]
    /\ UNCHANGED <<config, restartVars, retry, notifyVars, now, flags>>

\* the virtual keyboard device becomes available
KeyboardHeals ==
    /\ proc = "running"
    /\ ~card.keyboardOk
    /\ card' = [card EXCEPT !.keyboardOk = TRUE]
    /\ UNCHANGED <<config, restartVars, retry, notifyVars, now, flags>>

\* a smartcard call fails: only while the subsystem is faulty
SmartcardCallFails ==
    /\ ~card.callsOk
    /\ \/ EstablishFails
       \/ ListReadersFails
       \/ WaitForCardFails
       \/ ConnectCardFails
       \/ CardReleaseFails

\* runServiceLoop from ctx.ListReaders on, in the environment of the
\* moment
ListReadersRecovering ==
    /\ ListReadersOk
    /\ card.callsOk =>
           card'.err \notin {"no readers", "device number out of range"}
    /\ card.keyboardOk => card'.err # "failed to create keyboard"

\* the steps of the watcher that return from a call that succeeded, or
\* handle an error; the release wait returns when the card is taken away
WatcherStep ==
    \/ EstablishOk
    \/ ListReadersRecovering
    \/ WaitFailed
    \/ ConnectCardOk
    \/ ProcessCard
    \/ ProcessCardFailed
    \/ CardReleased
    \/ CardReleaseFailed
    \/ ServiceFailed

\* the settings the fair watcher is explored under: auto_reconnect is on,
\* the notifications are off, the restart threshold is the largest one,
\* and the device configured is one that a reader list can hold
RecoverConfigs ==
    { [c EXCEPT !.Enabled = FALSE] :
        c \in { d \in ServiceConfigs :
                  /\ d.AutoReconnect
                  /\ d.MaxContextFailures = MaxServiceThreshold
                  /\ d.Device <= MaxReaders } }

InitRecover ==
    /\ config \in RecoverConfigs
    /\ contextFailureCount = 0
    /\ proc = "running"
    /\ restartTrace = <<>>
    /\ lastCall = [op |-> "", ret |-> ""]
    /\ hist = [run |-> 0, ops |-> {}, resetFrom |-> -1]
    /\ retry = NewRetry
    /\ errorCounts = NewErrorCounts
    /\ lastNotifications = NewLastNotifications
    /\ now = 0
    /\ delivered = <<>>
    /\ flags = ToFlags(config)
    /\ card = NoRecovery

NextRecover ==
    \/ SmartcardHeals
    \/ KeyboardHeals
    \/ SmartcardCallFails
    \/ CardDetected
    \/ WatcherStep

SpecRecover ==
    InitRecover /\ [][NextRecover]_vars /\ WF_vars(WatcherStep)



\* ------------------------------------------------- main / LoadConfig
\* The process from its start to its exit, and the process a self-restart
\* spawns: card holds the command line, the open_website of config.yaml,
\* what flag.Parse made of them and whether the browser was opened.

\* the name of the flag performSelfRestart appends
AutoRestartMarker == "--auto-restart"

\* the command-line words explored: the boolean flag open-website in both
\* forms, the marker, and a word that is not a flag
ArgWords == {"-open-website", "-open-website=false", AutoRestartMarker,
             "true"}

\* flag.Parse stops before the first argument that is not a flag
NonFlags == {"true"}

\* the command lines the first process is started with
CommandLines == UNION { [1..n -> ArgWords] : n \in 0..MaxArgs }

\* flag.Parse over args from position i on; st holds the flag variables
RECURSIVE ParseFlags(_, _, _)
ParseFlags(args, i, st) ==
    IF i > Len(args) \/ args[i] \in NonFlags
    THEN st
    ELSE ParseFlags(args, i + 1,
             IF args[i] = "-open-website"
             THEN [st EXCEPT !.openWebsite = TRUE]
             ELSE IF args[i] = "-open-website=false"
             THEN [st EXCEPT !.openWebsite = FALSE]
             ELSE [st EXCEPT !.autoRestart = TRUE])

\* overrideWithFlags: config.Web.OpenWebsite after the flags were applied
\* over the value of the configuration file
overrideWithFlags_noMarker(fileOpen, args) ==
    ParseFlags(args, 1, [openWebsite |-> fileOpen,
                         autoRestart |-> FALSE]).openWebsite

overrideWithFlags(fileOpen, args) ==
    LET st == ParseFlags(args, 1, [openWebsite |-> fileOpen,
                                   autoRestart |-> FALSE])
    IN  IF st.autoRestart THEN FALSE ELSE st.openWebsite

\* args := os.Args[1:]; args = append(args, "--auto-restart")
SpawnArgs_same(args) == args

SpawnArgs(args) == Append(args, AutoRestartMarker)

\* a process that has not run main yet
NewProcess(args, fileOpen, generation) ==
    [op |-> "main", pc |-> "start", args |-> args, fileOpen |-> fileOpen,
     browser |-> FALSE, spawnArgs |-> <<>>, generation |-> generation]

\* main up to service.Start: LoadConfig, the browser opened when
\* config.Web.OpenWebsite is set (openOk: OpenURL succeeded), the
\* "Service gestartet" notification
Main ==
    /\ proc = "running"
    /\ card.pc = "start"
    /\ \E openOk \in BOOLEAN :
       \E open \in {overrideWithFlags(card.fileOpen, card.args)} :
          /\ config' = [config EXCEPT !.OpenWebsite = open]
          /\ card' = [card EXCEPT !.pc = "service", !.browser = open]
          /\ \E nm1 \in {IF open /\ ~openOk
                         THEN NotifyErrorThrottledOp(
                                  config, NmState, "browser-error", now)
                         ELSE NmState} :
                SetNm(NotifyInfoOp(config, nm1))
    /\ UNCHANGED <<restartVars, retry, now, flags>>

\* a PC/SC failure is tracked while the service runs; when it starts the
\* restart and the spawn succeeds, the new process gets SpawnArgs
MainFailure ==
    /\ card.pc = "service"
    /\ \E operation \in Operations : trackSystemFailureBody(operation)
    /\ card' = IF proc' = "exit0"
               THEN [card EXCEPT !.pc = "spawned",
                                 !.spawnArgs = SpawnArgs(card.args)]
               ELSE IF proc' = "exit1"
               THEN [card EXCEPT !.pc = "exited"]
               ELSE card
    /\ UNCHANGED <<config, retry, now, flags>>

\* a context is established while the service runs: ResetFailureCount
MainRecovers ==
    /\ proc = "running"
    /\ card.pc = "service"
    /\ contextFailureCount > 0
    /\ contextFailureCount' = 0
    /\ lastCall' = [op |-> "ResetFailureCount", ret |-> "reset"]
    /\ hist' = [run |-> 0, ops |-> {}, resetFrom |-> contextFailureCount]
    /\ UNCHANGED <<config, proc, restartTrace, retry, notifyVars, now,
                   serviceVars>>

\* the spawned process begins: a new RestartManager and
\* NotificationManager, the same config.yaml, the command line it was
\* spawned with
ChildStarts ==
    /\ proc = "exit0"
    /\ card.pc = "spawned"
    /\ card.generation < MaxRestarts
    /\ proc' = "running"
    /\ contextFailureCount' = 0
    /\ restartTrace' = <<>>
    /\ lastCall' = [op |-> "", ret |-> ""]
    /\ hist' = [run |-> 0, ops |-> {}, resetFrom |-> -1]
    /\ errorCounts' = NewErrorCounts
    /\ lastNotifications' = NewLastNotifications
    /\ delivered' = <<>>
    /\ card' = NewProcess(card.spawnArgs, card.fileOpen, card.generation + 1)
    /\ UNCHANGED <<config, retry, now, flags>>

\* the settings the process is explored under
MainConfigs ==
    { [DefaultConfig EXCEPT !.MaxContextFailures = m, !.RestartDelay = d] :
        m \in 1..2, d \in {0, 10} }

InitMain ==
    /\ config \in MainConfigs
    /\ contextFailureCount = 0
    /\ proc = "running"
    /\ restartTrace = <<>>
    /\ lastCall = [op |-> "", ret |-> ""]
    /\ hist = [run |-> 0, ops |-> {}, resetFrom |-> -1]
    /\ retry = NewRetry
    /\ errorCounts = NewErrorCounts
    /\ lastNotifications = NewLastNotifications
    /\ now = 0
    /\ delivered = <<>>
    /\ flags = ToFlags(config)
    /\ \E args \in CommandLines, fileOpen \in BOOLEAN :
           card = NewProcess(args, fileOpen, 0)

NextMain ==
    \/ Main
    \/ MainFailure
    \/ MainRecovers
    \/ ChildStarts

SpecMain == InitMain /\ [][NextMain]_vars


\* ------------------------------ NotificationManager called from two goroutines
\* The service goroutine and the hotkey callback report errors to the one
\* NotificationManager. Its methods take no lock, so the statements of two
\* calls interleave: card.actors holds each caller's position and locals.

\* the goroutines that call NotifyError / NotifyErrorThrottled
RaceActors == {"service", "hotkey"}

\* the error types a goroutine reports: the hotkey callback calls
\* NotifyError("Repeat failed: ..."), the service also NotifyErrorThrottled
ActorTypes(a) ==
    IF a = "service" THEN {"card-error", "general-error"}
                     ELSE {"general-error"}

\* a goroutine outside the NotificationManager
IdleActor == [pc |-> "idle", type |-> "", count |-> 0]

NoRace == [op |-> "notify", reports |-> 0,
           actors |-> [a \in RaceActors |-> IdleActor]]

\* the call begins: the gate, then shouldNotifyError reads
\* lastNotifications and errorCounts
RaceDecide(a) ==
    /\ proc = "running"
    /\ config.Enabled /\ config.ShowErrors
    /\ card.actors[a].pc = "idle"
    /\ card.reports < MaxReports
    /\ \E errorType \in ActorTypes(a) :
          card' = [card EXCEPT
              !.reports = @ + 1,
              !.actors[a] =
                  [pc |-> IF shouldNotifyError(errorType, lastNotifications,
                                               errorCounts, now)
                          THEN "deliver" ELSE "increment",
                   type |-> errorType, count |-> 0]]
    /\ UNCHANGED <<config, restartVars, retry, notifyVars, now, flags>>

\* beeep.Alert with the count read for the title, then
\* nm.lastNotifications[errorType] = time.Now()
RaceDeliver(a) ==
    /\ proc = "running"
    /\ card.actors[a].pc = "deliver"
    /\ LET errorType == card.actors[a].type
       IN  /\ delivered' =
                  <<[kind |-> "alert", title |-> a, type |-> errorType,
                     x |-> TitleCount(errorCounts[errorType])]>>
           /\ lastNotifications' =
                  [lastNotifications EXCEPT ![errorType] = now]
    /\ card' = [card EXCEPT !.actors[a].pc = "increment"]
    /\ UNCHANGED <<config, restartVars, retry, errorCounts, now, flags>>

\* nm.errorCounts[errorType]++ : the read
RaceRead(a) ==
    /\ proc = "running"
    /\ card.actors[a].pc = "increment"
    /\ card' = [card EXCEPT
                  !.actors[a].pc = "write",
                  !.actors[a].count = errorCounts[card.actors[a].type]]
    /\ UNCHANGED <<config, restartVars, retry, notifyVars, now, flags>>

\* nm.errorCounts[errorType]++ : the write
RaceWrite(a) ==
    /\ proc = "running"
    /\ card.actors[a].pc = "write"
    /\ errorCounts' = [errorCounts EXCEPT
                          ![card.actors[a].type] = card.actors[a].count + 1]
    /\ card' = [card EXCEPT !.actors[a] = IdleActor]
    /\ UNCHANGED <<config, restartVars, retry, lastNotifications, delivered,
                   now, flags>>

\* both goroutines are writing the map: the Go runtime may stop the
\* process with "fatal error: concurrent map writes" (exit status 2)
RaceFatal ==
    /\ proc = "running"
    /\ \A a \in RaceActors : card.actors[a].pc = "write"
    /\ proc' = "exit2"
    /\ UNCHANGED <<config, contextFailureCount, restartTrace, lastCall, hist,
                   retry, notifyVars, now, serviceVars>>

\* a minute passes
RaceTick ==
    /\ proc = "running"
    /\ now < MaxRaceNow
    /\ now' = now + 1
    /\ UNCHANGED <<config, restartVars, retry, notifyVars, serviceVars>>

InitRace ==
    /\ config = DefaultConfig
    /\ contextFailureCount = 0
    /\ proc = "running"
    /\ restartTrace = <<>>
    /\ lastCall = [op |-> "", ret |-> ""]
    /\ hist = [run |-> 0, ops |-> {}, resetFrom |-> -1]
    /\ retry = NewRetry
    /\ errorCounts = NewErrorCounts
    /\ lastNotifications = NewLastNotifications
    /\ now = 0
    /\ delivered = <<>>
    /\ flags = ToFlags(config)
    /\ card = NoRace

NextRace ==
    \/ \E a \in RaceActors : RaceDecide(a)
    \/ \E a \in RaceActors : RaceDeliver(a)
    \/ \E a \in RaceActors : RaceRead(a)
    \/ \E a \in RaceActors : RaceWrite(a)
    \/ RaceFatal
    \/ RaceTick

SpecRace == InitRace /\ [][NextRace]_vars


\* ------------------------------------------- UpdateChecker.isNewerVersion
\* Version strings are sequences of characters. A version is drawn as an
\* optional 'v' and a list of parts, rendered into the string the function
\* is called with.

\* the parts the versions are made of: numbers, one of two digits, and a
\* part strconv.Atoi rejects
NumberParts == { <<"0">>, <<"2">>, <<"9">>, <<"1", "0">> }
BadPart == <<"x">>

\* the versions explored: numeric parts, and two malformed ones
Versions ==
    { [prefix |-> v, parts |-> ps] :
        v \in BOOLEAN,
        ps \in UNION { [1..n -> NumberParts] : n \in 1..MaxParts }
               \cup { <<BadPart>>, <<<<"9">>, BadPart>> } }

\* strings.Join(parts, ".") from part i on
RECURSIVE JoinParts(_, _)
JoinParts(parts, i) ==
    IF i > Len(parts) THEN <<>>
    ELSE IF i = Len(parts) THEN parts[i]
    ELSE parts[i] \o <<".">> \o JoinParts(parts, i + 1)

\* the version string of a version
VersionString(v) ==
    (IF v.prefix THEN <<"v">> ELSE <<>>) \o JoinParts(v.parts, 1)

\* strings.TrimPrefix(s, "v")
TrimPrefixV(s) ==
    IF Len(s) >= 1 /\ s[1] = "v" THEN SubSeq(s, 2, Len(s)) ELSE s

\* strings.Split(s, "."): cur is the part being read from position i on
RECURSIVE SplitDots(_, _, _)
SplitDots(s, i, cur) ==
    IF i > Len(s) THEN <<cur>>
    ELSE IF s[i] = "." THEN <<cur>> \o SplitDots(s, i + 1, <<>>)
    ELSE SplitDots(s, i + 1, Append(cur, s[i]))

\* for len(parts) < 3 { parts = append(parts, "0") }
RECURSIVE PadParts(_)
PadParts(parts) ==
    IF Len(parts) < 3 THEN PadParts(Append(parts, <<"0">>)) ELSE parts

\* the decimal digits
DecimalDigit ==
    [c \in {"0", "1", "2", "3", "4", "5", "6", "7", "8", "9"} |->
        CASE c = "0" -> 0 [] c = "1" -> 1 [] c = "2" -> 2 [] c = "3" -> 3
          [] c = "4" -> 4 [] c = "5" -> 5 [] c = "6" -> 6 [] c = "7" -> 7
          [] c = "8" -> 8 [] c = "9" -> 9]

\* strconv.Atoi on a string without sign: an error on the empty string and
\* on any character that is not a digit
RECURSIVE AtoiFrom(_, _, _)
AtoiFrom(part, i, acc) ==
    IF i > Len(part) THEN [ok |-> TRUE, n |-> acc]
    ELSE IF part[i] \notin DOMAIN DecimalDigit THEN [ok |-> FALSE, n |-> 0]
    ELSE AtoiFrom(part, i + 1, 10 * acc + DecimalDigit[part[i]])

Atoi_firstDigit(part) ==
    IF part = <<>> \/ part[1] \notin DOMAIN DecimalDigit
    THEN [ok |-> FALSE, n |-> 0]
    ELSE [ok |-> TRUE, n |-> DecimalDigit[part[1]]]

Atoi(part) ==
    IF part = <<>> THEN [ok |-> FALSE, n |-> 0] ELSE AtoiFrom(part, 1, 0)

\* the loop over the three parts, from part i on
RECURSIVE CompareParts(_, _, _)
CompareParts(remoteParts, currentParts, i) ==
    IF i > 3 THEN [newer |-> FALSE, err |-> Nil]
    ELSE LET remoteNum == Atoi(remoteParts[i])
             currentNum == Atoi(currentParts[i])
         IN  IF ~remoteNum.ok
             THEN [newer |-> FALSE, err |-> "invalid remote version part"]
             ELSE IF ~currentNum.ok
             THEN [newer |-> FALSE, err |-> "invalid current version part"]
             ELSE IF remoteNum.n > currentNum.n
             THEN [newer |-> TRUE, err |-> Nil]
             ELSE IF remoteNum.n < currentNum.n
             THEN [newer |-> FALSE, err |-> Nil]
             ELSE CompareParts(remoteParts, currentParts, i + 1)

\* isNewerVersion(remote, current) on version strings
isNewerVersion(remote, current) ==
    CompareParts(PadParts(SplitDots(TrimPrefixV(remote), 1, <<>>)),
                 PadParts(SplitDots(TrimPrefixV(current), 1, <<>>)), 1)

\* the comparison of one pair of versions, in both directions
IsNewerVersion ==
    /\ card.pc = "call"
    /\ card' = [card EXCEPT
           !.pc = "returned",
           !.result = isNewerVersion(VersionString(card.remote),
                                     VersionString(card.current)),
           !.reverse = isNewerVersion(VersionString(card.current),
                                      VersionString(card.remote))]
    /\ UNCHANGED <<config, restartVars, retry, notifyVars, now, flags>>

InitVersion ==
    /\ config = DefaultConfig
    /\ contextFailureCount = 0
    /\ proc = "running"
    /\ restartTrace = <<>>
    /\ lastCall = [op |-> "", ret |-> ""]
    /\ hist = [run |-> 0, ops |-> {}, resetFrom |-> -1]
    /\ retry = NewRetry
    /\ errorCounts = NewErrorCounts
    /\ lastNotifications = NewLastNotifications
    /\ now = 0
    /\ delivered = <<>>
    /\ flags = ToFlags(config)
    /\ \E remote \in Versions, current \in Versions :
           card = [op |-> "isNewerVersion", pc |-> "call",
                   remote |-> remote, current |-> current,
                   result |-> [newer |-> FALSE, err |-> Nil],
                   reverse |-> [newer |-> FALSE, err |-> Nil]]

NextVersion == IsNewerVersion

SpecVersion == InitVersion /\ [][NextVersion]_vars


\* ------------------------------------------- SingleInstance / start of main
\* Processes of the application and the lock file they share. card.file is
\* the file at lockPath: inode tells who created it (0: a process that is
\* gone), content the PID read from it (0: nothing written yet).
\* card.procs holds each process's position in main / TryLock.

\* the process ids
Procs == 1..MaxProcs

\* the PID in the lock file a process that is gone has left behind
DeadPid == 99

NoFile == [exists |-> FALSE, inode |-> 0, content |-> 0]
StaleFile == [exists |-> TRUE, inode |-> 0, content |-> DeadPid]

\* a process not started yet; tries counts the TryLock calls of main
Unborn == [pc |-> "unborn", parent |-> 0, tries |-> 1]

\* isProcessRunning(pid)
isProcessRunning(procs, pid) ==
    /\ pid \in Procs
    /\ procs[pid].pc \notin {"unborn", "exited0", "rejected"}

\* TryLock: os.OpenFile(lockPath, O_CREATE|O_WRONLY|O_EXCL)
LockOpen(p) ==
    /\ card.procs[p].pc = "open"
    /\ IF card.file.exists
       THEN card' = [card EXCEPT !.procs[p].pc = "check"]
       ELSE card' = [card EXCEPT
                        !.file = [exists |-> TRUE, inode |-> p,
                                  content |-> 0],
                        !.procs[p].pc = "write"]
    /\ UNCHANGED <<config, restartVars, retry, notifyVars, now, flags>>

\* TryLock: file.WriteString(pid) into the file this process created,
\* which may no longer be the file at lockPath; TryLock returns true and
\* main goes on to start the service
LockWrite(p) ==
    /\ card.procs[p].pc = "write"
    /\ card' = [card EXCEPT
           !.file = IF @.exists /\ @.inode = p THEN [@ EXCEPT !.content = p]
                    ELSE @,
           !.procs[p].pc = "service"]
    /\ UNCHANGED <<config, restartVars, retry, notifyVars, now, flags>>

\* checkExistingInstance: os.ReadFile, strconv.Atoi and isProcessRunning:
\* the lock is taken for stale (and removed next), or TryLock returns
\* false; after the second TryLock of main that is os.Exit(1)
LockCheck(p) ==
    /\ card.procs[p].pc = "check"
    /\ card' = [card EXCEPT !.procs[p].pc =
           IF /\ card.file.exists
              /\ card.file.content # 0
              /\ isProcessRunning(card.procs, card.file.content)
           THEN IF card.procs[p].tries = 1 THEN "info" ELSE "rejected"
           ELSE "remove"]
    /\ UNCHANGED <<config, restartVars, retry, notifyVars, now, flags>>

\* checkExistingInstance: os.Remove(lockPath), then TryLock again
LockRemove(p) ==
    /\ card.procs[p].pc = "remove"
    /\ card' = [card EXCEPT !.file = NoFile, !.procs[p].pc = "open"]
    /\ UNCHANGED <<config, restartVars, retry, notifyVars, now, flags>>

\* main after TryLock returned false: GetRunningInstanceInfo, then
\* os.Exit(1) on an error or a running instance, else the second TryLock
LockInfo(p) ==
    /\ card.procs[p].pc = "info"
    /\ card' =
         IF /\ card.file.exists
            /\ \/ card.file.content = 0
               \/ isProcessRunning(card.procs, card.file.content)
         THEN [card EXCEPT !.procs[p].pc = "rejected"]
         ELSE [card EXCEPT !.procs[p].pc = "open", !.procs[p].tries = 2]
    /\ UNCHANGED <<config, restartVars, retry, notifyVars, now, flags>>

\* performSelfRestart of p up to cmd.Start(): the process c begins
LockSpawn(p, c) ==
    /\ card.procs[p].pc = "service"
    /\ card.procs[c].pc = "unborn"
    /\ card' = [card EXCEPT
           !.procs[p].pc = "spawned",
           !.procs[c] = [pc |-> "open", parent |-> p, tries |-> 1]]
    /\ UNCHANGED <<config, restartVars, retry, notifyVars, now, flags>>

\* performSelfRestart after cmd.Start(): NotifyInfo and os.Exit(0); the
\* lock file is left as it is
LockExit(p) ==
    /\ card.procs[p].pc = "spawned"
    /\ card' = [card EXCEPT !.procs[p].pc = "exited0"]
    /\ UNCHANGED <<config, restartVars, retry, notifyVars, now, flags>>

InitLock ==
    /\ config = DefaultConfig
    /\ contextFailureCount = 0
    /\ proc = "running"
    /\ restartTrace = <<>>
    /\ lastCall = [op |-> "", ret |-> ""]
    /\ hist = [run |-> 0, ops |-> {}, resetFrom |-> -1]
    /\ retry = NewRetry
    /\ errorCounts = NewErrorCounts
    /\ lastNotifications = NewLastNotifications
    /\ now = 0
    /\ delivered = <<>>
    /\ flags = ToFlags(config)
    /\ \E file \in {NoFile, StaleFile}, started \in SUBSET Procs :
          /\ started # {}
          /\ card = [op |-> "TryLock", file |-> file,
                     procs |-> [p \in Procs |->
                         IF p \in started
                         THEN [Unborn EXCEPT !.pc = "open"] ELSE Unborn]]

NextLock ==
    \/ \E p \in Procs : LockOpen(p)
    \/ \E p \in Procs : LockWrite(p)
    \/ \E p \in Procs : LockCheck(p)
    \/ \E p \in Procs : LockRemove(p)
    \/ \E p \in Procs : LockInfo(p)
    \/ \E p \in Procs, c \in Procs : LockSpawn(p, c)
    \/ \E p \in Procs : LockExit(p)

SpecLock == InitLock /\ [][NextLock]_vars


\* ------------------------------- waitUntilCardPresent / waitUntilCardRelease
\* The watcher and the reader it watches: card.reader is the state of the
\* reader, card.cur and card.event are CurrentState and EventState of the
\* scard.ReaderState the wait in progress polls with; card.emitted counts
\* the UIDs written since the card on the reader was placed, and
\* card.monitorErr tells whether GetStatusChange has failed since then.

\* scard.StateUnaware, and what GetStatusChange reports of a reader
StateUnaware == "unaware"
ReaderStates == {"empty", "present", "inuse"}

\* EventState & scard.StatePresent != 0, EventState & scard.StateEmpty != 0
HasStatePresent(state) == state \in {"present", "inuse"}
HasStateEmpty(state) == state = "empty"

\* cardReadingLoop is about to call waitForCardWithRetry
NoWatch == [op |-> "cardReadingLoop", pc |-> "present-check",
            reader |-> "empty", cur |-> StateUnaware,
            event |-> StateUnaware, emitted |-> 0, monitorErr |-> FALSE]

\* a card is put on the reader
CardPlaced ==
    /\ card.reader = "empty"
    /\ card' = [card EXCEPT !.reader = "present", !.emitted = 0,
                            !.monitorErr = FALSE]
    /\ UNCHANGED <<config, restartVars, retry, notifyVars, now, flags>>

\* the card is taken from the reader
CardRemoved ==
    /\ card.reader # "empty"
    /\ card' = [card EXCEPT !.reader = "empty"]
    /\ UNCHANGED <<config, restartVars, retry, notifyVars, now, flags>>

\* the card on the reader begins or ends to be used by a connection
CardInUse ==
    /\ card.reader # "empty"
    /\ card' = [card EXCEPT
                  !.reader = IF @ = "present" THEN "inuse" ELSE "present"]
    /\ UNCHANGED <<config, restartVars, retry, notifyVars, now, flags>>

\* waitUntilCardPresent, the head of its loop: return the reader when
\* EventState has StatePresent, else CurrentState = EventState
WaitPresentCheck ==
    /\ card.pc = "present-check"
    /\ card' = IF HasStatePresent(card.event)
               THEN [card EXCEPT !.pc = "process"]
               ELSE [card EXCEPT !.pc = "present-call", !.cur = card.event]
    /\ UNCHANGED <<config, restartVars, retry, notifyVars, now, flags>>

\* ctx.GetStatusChange(rs, -1) in waitUntilCardPresent: it returns the
\* state of the reader once that differs from CurrentState, or an error,
\* on which cardReadingLoop starts the wait again
WaitPresentCall ==
    /\ card.pc = "present-call"
    /\ \E ok \in BOOLEAN :
        IF ok
        THEN /\ card.reader # card.cur
             /\ card' = [card EXCEPT !.pc = "present-check",
                                     !.event = card.reader]
        ELSE card' = [card EXCEPT !.pc = "present-check",
                                  !.cur = StateUnaware,
                                  !.event = StateUnaware,
                                  !.monitorErr = TRUE]
    /\ UNCHANGED <<config, restartVars, retry, notifyVars, now, flags>>

\* processCard up to the call of waitUntilCardRelease: with the card gone
\* ctx.Connect fails; else the UID is read and written, or processCard
\* returns an error and cardReadingLoop waits for a card again.
\* waitUntilCardRelease begins with CurrentState = scard.StatePresent.
WatchProcessCard ==
    /\ card.pc = "process"
    /\ card.emitted < MaxEmissions
    /\ \E ok \in BOOLEAN :
        card' = IF ok /\ card.reader # "empty"
                THEN [card EXCEPT !.pc = "release-check",
                                  !.emitted = @ + 1,
                                  !.cur = "present", !.event = StateUnaware]
                ELSE [card EXCEPT !.pc = "present-check",
                                  !.cur = StateUnaware,
                                  !.event = StateUnaware]
    /\ UNCHANGED <<config, restartVars, retry, notifyVars, now, flags>>

\* waitUntilCardRelease, the head of its loop: return when any status
\* was reported
WaitReleaseCheck_anyEvent ==
    /\ card.pc = "release-check"
    /\ card' = IF card.event # StateUnaware
               THEN [card EXCEPT !.pc = "present-check",
                                 !.cur = StateUnaware,
                                 !.event = StateUnaware]
               ELSE [card EXCEPT !.pc = "release-call", !.cur = card.event]
    /\ UNCHANGED <<config, restartVars, retry, notifyVars, now, flags>>

\* waitUntilCardRelease, the head of its loop: return nil when EventState
\* has StateEmpty, else CurrentState = EventState
WaitReleaseCheck ==
    /\ card.pc = "release-check"
    /\ card' = IF HasStateEmpty(card.event)
               THEN [card EXCEPT !.pc = "present-check",
                                 !.cur = StateUnaware,
                                 !.event = StateUnaware]
               ELSE [card EXCEPT !.pc = "release-call", !.cur = card.event]
    /\ UNCHANGED <<config, restartVars, retry, notifyVars, now, flags>>

\* ctx.GetStatusChange(rs, -1) in waitUntilCardRelease: it returns the
\* state of the reader once that differs from CurrentState, or an error,
\* on which processCard returns nil
WaitReleaseCall ==
    /\ card.pc = "release-call"
    /\ \E ok \in BOOLEAN :
        IF ok
        THEN /\ card.reader # card.cur
             /\ card' = [card EXCEPT !.pc = "release-check",
                                     !.event = card.reader]
        ELSE card' = [card EXCEPT !.pc = "present-check",
                                  !.cur = StateUnaware,
                                  !.event = StateUnaware,
                                  !.monitorErr = TRUE]
    /\ UNCHANGED <<config, restartVars, retry, notifyVars, now, flags>>

InitWatch ==
    /\ config = DefaultConfig
    /\ contextFailureCount = 0
    /\ proc = "running"
    /\ restartTrace = <<>>
    /\ lastCall = [op |-> "", ret |-> ""]
    /\ hist = [run |-> 0, ops |-> {}, resetFrom |-> -1]
    /\ retry = NewRetry
    /\ errorCounts = NewErrorCounts
    /\ lastNotifications = NewLastNotifications
    /\ now = 0
    /\ delivered = <<>>
    /\ flags = ToFlags(config)
    /\ card = NoWatch

NextWatch ==
    \/ CardPlaced
    \/ CardRemoved
    \/ CardInUse
    \/ WaitPresentCheck
    \/ WaitPresentCall
    \/ WatchProcessCard
    \/ WaitReleaseCheck
    \/ WaitReleaseCall

SpecWatch == InitWatch /\ [][NextWatch]_vars


\* =================================================================== claims
\* number of restart sequences begun by this process
RestartsBegun ==
    Cardinality({i \in 1..Len(restartTrace) :
                    restartTrace[i] = "notify-trigger"})

\* C1: with self_restart enabled and max_context_failures = M, in a run of
\* consecutive failure calls with no reset in between, the call that starts
\* the restart sequence is exactly the M-th one; every earlier call returns
\* "not triggered" and leaves the process running.
C1_RestartOnMthFailure ==
    (config.SelfRestart /\ lastCall.op \in Operations) =>
        /\ hist.run <= config.MaxContextFailures
        /\ (lastCall.ret = "restart") <=> (hist.run = config.MaxContextFailures)
        /\ (hist.run < config.MaxContextFailures) =>
               (lastCall.ret = "not triggered" /\ proc = "running"
                /\ restartTrace = <<>>)
        /\ (lastCall.ret = "restart") => (proc # "running" /\ RestartsBegun = 1)

\* C1 witness: threshold 5, the fifth consecutive context failure restarted
C1_Witness ==
    /\ config.SelfRestart
    /\ config.MaxContextFailures = 5
    /\ hist.run = 5
    /\ hist.ops = {"PC/SC Context"}
    /\ lastCall = [op |-> "PC/SC Context", ret |-> "restart"]
    /\ proc = "exit0"

\* C2: ResetFailureCount leaves the counter at 0, so after a reset that
\* followed k > 0 failures the restart needs M failures again: fewer than M
\* failures since the last reset never restart, and a restart after a reset
\* happens with exactly M failures since that reset.
C2_ResetRestartsTheCount ==
    /\ (lastCall.op = "ResetFailureCount") => (contextFailureCount = 0)
    /\ (config.SelfRestart /\ hist.resetFrom > 0
          /\ hist.run < config.MaxContextFailures) =>
            (proc = "running" /\ contextFailureCount = hist.run)
    /\ (config.SelfRestart /\ hist.resetFrom > 0 /\ proc # "running") =>
            (hist.run = config.MaxContextFailures)

\* C2 witness: threshold 5, a reset at count 4, then 4 more failures and the
\* process still runs
C2_Witness ==
    /\ config.SelfRestart
    /\ config.MaxContextFailures = 5
    /\ hist.resetFrom = 4
    /\ hist.run = 4
    /\ contextFailureCount = 4
    /\ lastCall.ret = "not triggered"
    /\ proc = "running"

\* C3: the counter is shared by all operations: with self_restart enabled
\* the counter equals the number of failures of any operation since the last
\* reset, M such failures in any mix end the process through the restart
\* sequence, and the restart sequence is begun at most once per process.
C3_SharedCounterSingleRestart ==
    /\ RestartsBegun <= 1
    /\ (proc # "running") <=> (RestartsBegun = 1)
    /\ config.SelfRestart =>
          /\ contextFailureCount = hist.run
          /\ (hist.run >= config.MaxContextFailures) =>
                 (proc # "running" /\ lastCall.ret = "restart")

\* C3 witness: threshold 4 reached by one failure of each operation
C3_Witness ==
    /\ config.SelfRestart
    /\ config.MaxContextFailures = 4
    /\ hist.run = 4
    /\ hist.ops = Operations
    /\ lastCall.ret = "restart"
    /\ RestartsBegun = 1
    /\ proc = "exit0"


\* the calls of the operation made by the current activation of Retry
RetryCalls == Len(retry.outcomes)

\* the calls of the operation that returned an error
RetryFailures ==
    Cardinality({i \in 1..Len(retry.outcomes) : retry.outcomes[i] # Nil})

RECURSIVE SumSeq(_)
SumSeq(q) == IF q = <<>> THEN 0 ELSE Head(q) + SumSeq(Tail(q))

\* C4: with maxAttempts = n >= 1 an operation that fails on every call is
\* called exactly n times (never more than n), and Retry then returns the
\* aggregated error that carries n and the error of the last call.
C4_RetryExhaustion ==
    /\ RetryCalls <= config.RetryAttempts
    /\ (retry.pc = "done" /\ RetryFailures = RetryCalls) =>
          /\ RetryCalls = config.RetryAttempts
          /\ retry.result =
               [status |-> "failed", attempts |-> config.RetryAttempts,
                last |-> retry.outcomes[RetryCalls]]

\* C4 witness: three attempts, all failed, the last one with another error
\* than the first
C4_Witness ==
    /\ config.RetryAttempts = 3
    /\ retry.pc = "done"
    /\ retry.outcomes = <<"E1", "E1", "E2">>
    /\ retry.result = [status |-> "failed", attempts |-> 3, last |-> "E2"]

\* C5: when the operation fails on calls 1..k-1 and succeeds on call k,
\* Retry calls it exactly k times (a success is always the last call),
\* returns success, and has slept k-1 times: never after the success.
C5_RetryRecovery ==
    /\ \A i \in 1..RetryCalls :
          (retry.outcomes[i] = Nil) => (i = RetryCalls /\ retry.pc = "done")
    /\ (retry.pc = "done" /\ RetryCalls >= 1
          /\ retry.outcomes[RetryCalls] = Nil) =>
          /\ retry.result.status = "ok"
          /\ retry.result.attempts = RetryCalls
          /\ Len(retry.sleeps) = RetryCalls - 1

\* C5 witness: four attempts allowed, failures on calls 1 and 2, success on 3
C5_Witness ==
    /\ config.RetryAttempts = 4
    /\ config.ReconnectDelay = 2
    /\ retry.pc = "done"
    /\ retry.outcomes = <<"E1", "E2", Nil>>
    /\ retry.result.status = "ok"
    /\ retry.sleeps = <<2, 4>>

Reports(c) == errorCounts'[c] = errorCounts[c] + 1

\* the handler of the step sent an alert for type c
Fires(c) ==
    \E i \in 1..Len(delivered') :
        delivered'[i].kind = "alert" /\ delivered'[i].type = c

\* before the step, less than the interval has passed since the last
\* notification of type c (or there has been none)
NoOverride(c, interval) ==
    \/ lastNotifications[c] = NoTime
    \/ now - lastNotifications[c] < interval

\* the last handler sent exactly one alert, for type c, whose title carries
\* the occurrence count x
Alerted(c, x) ==
    /\ Len(delivered) = 1
    /\ delivered[1].kind = "alert"
    /\ delivered[1].type = c
    /\ delivered[1].x = x

\* C7: without the elapsed-time override, an error of type card-error is
\* notified exactly when its occurrence count (0-indexed, before the
\* increment) is 0 or a multiple of 5: occurrences 1, 6, 11 of a run.
C7_CardSchedule ==
    [][ (Reports("card-error") /\ NoOverride("card-error", CardInterval)) =>
          (Fires("card-error") <=> (errorCounts["card-error"] % 5 = 0)) ]_vars

\* C7 witness: within one minute, the 11th card-error of a run was notified
\* through NotifyErrorThrottled
C7_Witness ==
    /\ now = 0
    /\ errorCounts["card-error"] = 11
    /\ Alerted("card-error", 10)
    /\ delivered[1].title = "NFC System-Fehler"

\* C8: without the elapsed-time override, an error of type pc-sc-context or
\* reader-error is notified exactly when its occurrence count is 0, 2, 4 or
\* a multiple of 10 that is >= 10.
C8_CriticalSchedule ==
    [][ \A c \in {"pc-sc-context", "reader-error"} :
          (Reports(c) /\ NoOverride(c, CriticalInterval)) =>
             (Fires(c) <=> \/ errorCounts[c] \in {0, 2, 4}
                           \/ (errorCounts[c] >= 10 /\ errorCounts[c] % 10 = 0))
      ]_vars

\* C8 witness: within one minute, the 21st reader-error of a run (count 20)
\* was notified
C8_Witness ==
    /\ now = 0
    /\ errorCounts["reader-error"] = 21
    /\ Alerted("reader-error", 20)

\* C9: without the elapsed-time override, an error of type service-error is
\* notified exactly when its occurrence count is 0, 1 or a multiple of 5.
C9_ServiceSchedule ==
    [][ (Reports("service-error")
           /\ NoOverride("service-error", ServiceInterval)) =>
          (Fires("service-error") <=>
              \/ errorCounts["service-error"] \in {0, 1}
              \/ errorCounts["service-error"] % 5 = 0) ]_vars

\* C9 witness: within one minute, the second service-error of a run
\* (count 1) was notified
C9_Witness ==
    /\ now = 0
    /\ errorCounts["service-error"] = 2
    /\ Alerted("service-error", 0)
    /\ delivered[1].title = "NFC System-Fehler"

\* C10: without the elapsed-time override, an error of any other type is
\* notified exactly when its occurrence count is 0 or a multiple of 3.
C10_DefaultSchedule ==
    [][ \A c \in ErrorTypes \ {"pc-sc-context", "reader-error", "card-error",
                               "service-error"} :
          (Reports(c) /\ NoOverride(c, DefaultInterval)) =>
             (Fires(c) <=> (errorCounts[c] % 3 = 0)) ]_vars

\* C10 witness: within one minute, the 7th keyboard-error of a run (count 6)
\* was notified
C10_Witness ==
    /\ now = 0
    /\ errorCounts["keyboard-error"] = 7
    /\ Alerted("keyboard-error", 6)

\* the class interval of error type c, in minutes
IntervalOf(c) ==
    IF c \in {"pc-sc-context", "reader-error"} THEN CriticalInterval
    ELSE IF c = "card-error" THEN CardInterval
    ELSE IF c = "service-error" THEN ServiceInterval
    ELSE DefaultInterval

\* before the step, type c has been notified and at least `since` minutes
\* have passed since then
Elapsed(c, since) ==
    /\ lastNotifications[c] # NoTime
    /\ now - lastNotifications[c] >= since

\* C11 as claimed: an error reported when at least the class interval has
\* elapsed since the last notification of its type is notified whatever its
\* occurrence count, also when the elapsed time equals the interval.
C11_OverrideAtInterval ==
    [][ \A c \in ErrorTypes :
          (Reports(c) /\ Elapsed(c, IntervalOf(c))) => Fires(c) ]_vars

\* C11 amended: an error reported when more than the class interval has
\* elapsed since the last notification of its type is notified whatever its
\* occurrence count; at exactly the interval the count schedule decides.
C11_OverrideAfterInterval ==
    [][ \A c \in ErrorTypes :
          (Reports(c) /\ Elapsed(c, IntervalOf(c) + 1)) => Fires(c) ]_vars

\* C11 witness: the second pc-sc-context error (count 1, which the count
\* schedule suppresses) arrived 6 minutes after the first and was notified
C11_Witness ==
    /\ now = CriticalInterval + 1
    /\ errorCounts["pc-sc-context"] = 2
    /\ lastNotifications["pc-sc-context"] = now
    /\ Alerted("pc-sc-context", 0)

\* C12: an error of type c that is reported while c has no entry in
\* lastNotifications, or while its occurrence count is 0 (also the first
\* error after NotifySuccess cleared the counts), is always notified, when
\* notifications and error display are enabled.
C12_FirstOccurrenceFires ==
    [][ \A c \in ErrorTypes :
          (/\ config.Enabled /\ config.ShowErrors
           /\ Reports(c)
           /\ (lastNotifications[c] = NoTime \/ errorCounts[c] = 0))
          => Fires(c) ]_vars

\* C12 witness: at minute 1 a card-error with occurrence count 0 was
\* notified: the first one ever, or the first one after the counts of an
\* earlier run were cleared
C12_Witness ==
    /\ now = 1
    /\ errorCounts["card-error"] = 1
    /\ lastNotifications["card-error"] = 1
    /\ Alerted("card-error", 0)

\* a step of the card loop in which exactly one error, of type c, is
\* reported to the NotificationManager: by cardReadingLoop after a failed
\* processCard, by processCard after a failed release wait, or by
\* processCard after a failed KeyboardWrite
ReportsOnce(c) ==
    \/ c = "card-error" /\ card.pc = "failed" /\ card'.pc = "waiting"
    \/ c = "general-error" /\ card.pc = "release-failed"
                           /\ card'.pc = "waiting"
    \/ c = "keyboard-error" /\ card.pc = "read"
                            /\ card'.calls = <<"NotifyErrorThrottled">>

CallsNotifySuccess == card.pc = "read" /\ card'.pc = "release"

\* no error type has an occurrence count above 0
NoErrorsCounted == \A c \in ErrorTypes : errorCounts[c] = 0

\* C14: NotifySuccess called while no error type has an occurrence count
\* above 0 delivers nothing and leaves every occurrence count and every
\* last-notification time as it was.
C14_SuccessGating ==
    [][ (/\ CallsNotifySuccess
         /\ NoErrorsCounted
         /\ \/ card'.calls = <<"NotifySuccess">>
            \/ ~(config.Enabled /\ config.ShowErrors))
        => /\ delivered' = <<>>
           /\ errorCounts' = errorCounts
           /\ lastNotifications' = lastNotifications ]_vars

\* C14 witness: a card was read with all notifications enabled and every
\* count at 0 after an earlier card-error; nothing was delivered and the
\* time of that card-error notification is still there
C14_Witness ==
    /\ config.Enabled /\ config.ShowSuccess /\ config.ShowErrors
    /\ card.pc = "release"
    /\ card.calls = <<"NotifySuccess">>
    /\ delivered = <<>>
    /\ \A c \in ErrorTypes : errorCounts[c] = 0
    /\ lastNotifications["card-error"] = 0

\* the success notifications among the notifications of the last step
SuccessesDelivered ==
    {i \in 1..Len(delivered) : delivered[i].title = "success"}

C16_ClearedAfterRead ==
    card.pc = "release" => \A c \in ErrorTypes : errorCounts[c] = 0

\* the bytes in the order they are rendered: reversed iff f.Reverse
Rendered(uid, f, i) ==
    IF f.Reverse THEN uid[Len(uid) + 1 - i] ELSE uid[i]

\* the value of a hex digit in the required case, -1 for any other character
DigitValue(ch, capsLock) ==
    CASE ch = "0" -> 0 [] ch = "1" -> 1 [] ch = "2" -> 2 [] ch = "3" -> 3
      [] ch = "4" -> 4 [] ch = "5" -> 5 [] ch = "6" -> 6 [] ch = "7" -> 7
      [] ch = "8" -> 8 [] ch = "9" -> 9
      [] ch = (IF capsLock THEN "A" ELSE "a") -> 10
      [] ch = (IF capsLock THEN "B" ELSE "b") -> 11
      [] ch = (IF capsLock THEN "C" ELSE "c") -> 12
      [] ch = (IF capsLock THEN "D" ELSE "d") -> 13
      [] ch = (IF capsLock THEN "E" ELSE "e") -> 14
      [] ch = (IF capsLock THEN "F" ELSE "f") -> 15
      [] OTHER -> -1

\* out is the hex rendering of uid in format f: two hex digits per byte,
\* the inChar glyph between bytes, the endChar glyph at the end
IsHexRendering(out, uid, f) ==
    LET n == Len(uid)
        inGlyph == CharFlagOutput(f.InChar)
        endGlyph == CharFlagOutput(f.EndChar)
        stride == 2 + Len(inGlyph)
        bodyLen == IF n = 0 THEN 0 ELSE 2 * n + (n - 1) * Len(inGlyph)
    IN  /\ Len(out) = bodyLen + Len(endGlyph)
        /\ \A i \in 1..n :
              LET p == (i - 1) * stride
                  hi == DigitValue(out[p + 1], f.CapsLock)
                  lo == DigitValue(out[p + 2], f.CapsLock)
              IN  /\ hi >= 0 /\ lo >= 0
                  /\ 16 * hi + lo = Rendered(uid, f, i)
                  /\ i < n => SubSeq(out, p + 3, p + stride) = inGlyph
        /\ SubSeq(out, bodyLen + 1, Len(out)) = endGlyph

\* C17: with decimal = false, the output for a UID of n >= 1 bytes is each
\* byte as exactly two hex digits (uppercase iff capsLock), the inChar
\* glyph between consecutive bytes and none after the last, then the
\* endChar glyph; its length is 2n + (n-1)*|inChar| + |endChar|, and
\* 04 AE 65 CA with hyphen and enter gives 04-ae-65-ca and a newline.
C17_HexCodec ==
    (card.op = "formatOutput" /\ ~config.Decimal /\ Len(card.uid) >= 1) =>
        /\ IsHexRendering(card.output, card.uid, flags)
        /\ Len(card.output) =
               2 * Len(card.uid)
               + (Len(card.uid) - 1) * Len(CharFlagOutput(flags.InChar))
               + Len(CharFlagOutput(flags.EndChar))
        /\ (/\ card.uid = <<4, 174, 101, 202>>
            /\ ~flags.Reverse /\ ~flags.CapsLock
            /\ flags.InChar = "hyphen" /\ flags.EndChar = "enter")
           => card.output = <<"0", "4", "-", "a", "e", "-", "6", "5", "-",
                              "c", "a", "\n">>

\* C17 witness: 04 AE 65 CA was formatted with hyphen and enter, lowercase,
\* not reversed
C17_Witness ==
    /\ card.op = "formatOutput"
    /\ ~config.Decimal /\ ~flags.Reverse /\ ~flags.CapsLock
    /\ flags.InChar = "hyphen" /\ flags.EndChar = "enter"
    /\ card.uid = <<4, 174, 101, 202>>
    /\ card.output = <<"0", "4", "-", "a", "e", "-", "6", "5", "-", "c", "a",
                       "\n">>

\* the number written as the decimal digits ds, modulo m
RECURSIVE DigitsMod(_, _, _)
DigitsMod(ds, m, acc) ==
    IF ds = <<>> THEN acc
    ELSE DigitsMod(Tail(ds), m, (acc * 10 + DigitValue(Head(ds), FALSE)) % m)

\* the unsigned little-endian number of the four bytes b, modulo m
LittleEndianMod(b, m) ==
    ((((((b[4] % m) * 256 + b[3]) % m) * 256 + b[2]) % m) * 256 + b[1]) % m

\* pairwise coprime moduli whose product exceeds every 10-digit number:
\* two numbers below 10^10 are equal iff they agree modulo each of them
Moduli == {65536, 65537, 9973}

\* out is the decimal rendering of the four bytes of uid in format f,
\* left-padded with zeros to `padding` digits, then the endChar glyph
IsDecimalRendering(out, uid, f, padding) ==
    LET endGlyph == CharFlagOutput(f.EndChar)
        k == Len(out) - Len(endGlyph)
        ds == SubSeq(out, 1, k)
        rx == [i \in 1..4 |-> Rendered(uid, f, i)]
    IN  /\ k >= 1 /\ k <= 10 /\ k >= padding
        /\ SubSeq(out, k + 1, Len(out)) = endGlyph
        /\ \A i \in 1..k : DigitValue(ds[i], FALSE) \in 0..9
        /\ \A m \in Moduli : DigitsMod(ds, m, 0) = LittleEndianMod(rx, m)
        /\ (k > 1 /\ k > padding) => ds[1] # "0"

\* C18: with decimal = true and a 4-byte UID, the output is the decimal
\* rendering of the bytes read as an unsigned 32-bit little-endian integer,
\* left-padded with zeros to decimalPadding digits when decimalPadding > 0,
\* then the endChar glyph; 04 AE 65 CA with padding 10 gives 3395661316.
C18_DecimalCodec ==
    (/\ card.op = "formatOutput"
     /\ config.Decimal /\ flags.Decimal
     /\ Len(card.uid) = 4)
    => /\ IsDecimalRendering(card.output, card.uid, flags,
                             config.DecimalPadding)
       /\ (/\ card.uid = <<4, 174, 101, 202>>
           /\ ~flags.Reverse /\ flags.EndChar = "none")
          => card.output = <<"3", "3", "9", "5", "6", "6", "1", "3", "1",
                             "6">>

\* the unpadded part of C18: the same rendering without the padding
DecimalUnpadded ==
    (/\ card.op = "formatOutput"
     /\ config.Decimal /\ flags.Decimal
     /\ Len(card.uid) = 4)
    => IsDecimalRendering(card.output, card.uid, flags, 0)

\* C19: formatOutput called with decimal = true and a UID whose length is
\* not 4 reports the fallback error through NotifyError and returns exactly
\* the hex rendering of that UID under the same other format fields.
C19_DecimalFallback ==
    [][ (flags.Decimal /\ card'.op = "formatOutput" /\ Len(card'.uid) # 4)
        => /\ card'.calls = <<"NotifyError">>
           /\ errorCounts'["general-error"] = errorCounts["general-error"] + 1
           /\ Fires("general-error")
           /\ flags' = [flags EXCEPT !.Decimal = FALSE]
           /\ IsHexRendering(card'.output, card'.uid,
                             [flags EXCEPT !.Decimal = FALSE]) ]_vars

\* C19 witness: the 7-byte UID 04 AE 65 CA 12 34 56 was formatted with
\* decimal configured: one error alert, and the plain hex string returned
C19_Witness ==
    /\ card.op = "formatOutput"
    /\ config.Decimal /\ ~config.Reverse /\ ~config.CapsLock
    /\ config.InChar = "none" /\ config.EndChar = "none"
    /\ card.uid = <<4, 174, 101, 202, 18, 52, 86>>
    /\ card.calls = <<"NotifyError">>
    /\ Alerted("general-error", 0)
    /\ card.output = <<"0", "4", "a", "e", "6", "5", "c", "a", "1", "2",
                       "3", "4", "5", "6">>

\* C20: for a fixed configured output format the string produced for a
\* UID depends only on the bytes of that UID, not on the UIDs formatted
\* before: it is the string a service that has formatted nothing yet
\* produces, and a 4-byte UID with decimal = true is rendered in decimal
\* also after a UID of another length has been formatted.
C20_CodecHasNoState ==
    card.op = "formatOutput" =>
        /\ card.output =
               formatOutput(config, NmState, ToFlags(config), card.uid,
                            now).output
        /\ (config.Decimal /\ Len(card.uid) = 4)
           => IsDecimalRendering(card.output, card.uid, ToFlags(config), 0)

\* a response with the success trailer: at least two bytes, the last two
\* being 90 00
HasSuccessTrailer(rsp) ==
    /\ Len(rsp) >= 2
    /\ rsp[Len(rsp) - 1] = 144
    /\ rsp[Len(rsp)] = 0

\* rsp is uid followed by two more bytes
IsUidOf(uid, rsp) ==
    /\ Len(rsp) = Len(uid) + 2
    /\ \A i \in 1..Len(uid) : uid[i] = rsp[i]

\* C21: readCardUID sends FF CA 00 00 00; it accepts a response exactly
\* when the response has at least two bytes and ends in 90 00, and then
\* the UID it returns is the response without these two bytes; after any
\* other response the attempt is an error, and a call that returns an
\* error returns no UID.
C21_ApduContract ==
    card.op = "readCardUID" /\ card.cmd # <<>> =>
        /\ card.cmd = <<255, 202, 0, 0, 0>>
        /\ card.transmitOk =>
              /\ card.err = Nil <=> HasSuccessTrailer(card.rsp)
              /\ card.err = Nil =>
                    /\ card.pc = "returned"
                    /\ card.ret = Nil
                    /\ IsUidOf(card.uidBytes, card.rsp)
        /\ card.err # Nil => card.uidBytes = <<>>
        /\ card.pc = "returned" /\ card.ret # Nil => card.uidBytes = <<>>

\* a response of a 2-byte UID and the trailer 90 00 was accepted
C21_Witness ==
    /\ card.op = "readCardUID"
    /\ card.pc = "returned"
    /\ card.rsp = <<4, 99, 144, 0>>
    /\ card.uidBytes = <<4, 99>>
    /\ card.ret = Nil

\* C22: when readCardUID returns an error (a transmit error, a response
\* shorter than 2 bytes or a trailer other than 90 00, after the retries),
\* the failure counter keeps its value, nothing is typed for the card, the
\* process keeps running, and the next step of the loop is to wait for a
\* card again.
C22_LocalFailure ==
    [][ /\ (card.pc = "read" /\ card'.pc = "failed"
            /\ card'.ret = "read failed") =>
               /\ contextFailureCount' = contextFailureCount
               /\ restartTrace' = restartTrace
               /\ proc' = "running"
               /\ card'.output = <<>>
        /\ (card.pc = "failed" /\ card.ret = "read failed") =>
               /\ contextFailureCount' = contextFailureCount
               /\ proc' = "running"
               /\ card'.pc = "waiting"
               /\ card'.ret = "read failed" ]_vars

\* a read failed while the failure counter stood at 1, and the loop waits
\* for the next card with the counter still at 1
C22_Witness ==
    /\ card.pc = "waiting"
    /\ card.op = "processCard"
    /\ card.ret = "read failed"
    /\ contextFailureCount = 1
    /\ proc = "running"

\* C23: when KeyboardWrite fails for a card, the loop goes on, and it
\* waits for that card to leave the reader before it waits for a card
\* again: the watcher gets back to waiting only from the release wait.
C23_SinkFailureAwaitsRelease ==
    [][ (/\ card.pc # "waiting"
         /\ card'.pc = "waiting"
         /\ card'.ret = "failed to write keyboard output") =>
            /\ proc' = "running"
            /\ card.pc \in {"release", "release-failed"} ]_vars

\* the step in which waitUntilCardRelease fails
ReleaseWaitFails == card.pc = "release" /\ card'.pc # "waiting"

\* processCard returns nil after the failed release wait: the general
\* NotifyError is its only notification call, no card-error occurrence is
\* counted, and the loop waits for a card again
ReadStillSucceeds ==
    card.pc = "release-failed" =>
        /\ proc' = "running"
        /\ card'.pc = "waiting"
        /\ card'.op = "processCard"
        /\ card'.ret = Nil
        /\ card'.calls = <<"NotifyError">>
        /\ errorCounts'["card-error"] = errorCounts["card-error"]

\* C24 as stated: a failure of the release wait after the UID was typed
\* never keeps the watcher from waiting for a card again: processCard
\* returns nil, no card-error notification is raised, the watcher returns
\* to waiting.
C24_ReleaseFailureKeepsRead ==
    [][ /\ ReleaseWaitFails =>
               /\ proc' = "running"
               /\ card'.pc = "release-failed"
               /\ errorCounts' = errorCounts
        /\ ReadStillSucceeds ]_vars

\* C24, amended: the same, unless the failure of the release wait is the
\* failure that brings the failure counter to max_context_failures with
\* self_restart enabled; then the restart sequence runs and the process
\* ends.
C24_ReleaseFailureKeepsReadUnlessRestart ==
    [][ /\ ReleaseWaitFails =>
               IF config.SelfRestart
                  /\ contextFailureCount + 1 >= config.MaxContextFailures
               THEN /\ proc' # "running"
                    /\ restartTrace' # restartTrace
               ELSE /\ proc' = "running"
                    /\ card'.pc = "release-failed"
                    /\ errorCounts' = errorCounts
        /\ ReadStillSucceeds ]_vars

\* the release wait failed after a UID was typed, the failure was counted,
\* and the loop waits for the next card with no card-error counted
C24_Witness ==
    /\ card.pc = "waiting"
    /\ card.op = "processCard"
    /\ card.calls = <<"NotifyError">>
    /\ card.ret = Nil
    /\ contextFailureCount = 1
    /\ errorCounts["card-error"] = 0
    /\ proc = "running"

\* C25: when waitForCardWithRetry has failed with the retries exhausted
\* and no restart fired, the context is released and the watcher is back
\* at ContextPending: it waits for a card again only after a new context
\* was established and the readers were listed, with auto_reconnect
\* enabled as well as disabled.
C25_UnwindsToContextPending ==
    [][ /\ card.pc = "WaitFailed" =>
               /\ ~card'.ctx
               /\ card'.pc \in {"LoopFailed", "ContextPending", "exited"}
        /\ (card'.pc = "AwaitingCard" /\ card.pc # "AwaitingCard") =>
               /\ card.pc \in {"ListReaders", "CardFailed",
                               "AwaitingRelease", "ReleaseFailed"}
               /\ card.ctx ]_vars

\* the events of a restart trace
TraceEvents == { restartTrace[i] : i \in 1..Len(restartTrace) }

\* the number of events before the spawn: the notification, the settle
\* wait, and the restart delay when one is configured
WaitsDone == IF config.RestartDelay > 0 THEN 3 ELSE 2

\* C26: a restart sequence begins with the trigger notification, then the
\* settle wait and the restart delay; then the new process is spawned with
\* the arguments of the current one plus the auto-restart marker, and the
\* process exits with code 0 only after that spawn; when the spawn fails,
\* an error is notified and the process exits with code 1, never 0.
C26_RestartSequence ==
    /\ proc = "running" => restartTrace = <<>>
    /\ proc # "running" =>
          /\ Len(restartTrace) > WaitsDone
          /\ restartTrace[1] = "notify-trigger"
          /\ restartTrace[2] = "sleep-settle"
          /\ config.RestartDelay > 0 => restartTrace[3] = "sleep-delay"
          /\ proc = "exit0" <=> restartTrace[WaitsDone + 1] = "spawn"
          /\ proc = "exit0" =>
                /\ restartTrace[Len(restartTrace)] = "exit0"
                /\ "exit1" \notin TraceEvents
                /\ "spawn-failed" \notin TraceEvents
                /\ Len(card.spawnArgs) = Len(card.args) + 1
                /\ SubSeq(card.spawnArgs, 1, Len(card.args)) = card.args
                /\ card.spawnArgs[Len(card.spawnArgs)] = "--auto-restart"
          /\ proc # "exit0" =>
                /\ proc = "exit1"
                /\ restartTrace[WaitsDone + 1] \in
                       {"spawn-failed", "notify-error"}
                /\ "notify-error" \in TraceEvents
                /\ restartTrace[Len(restartTrace)] = "exit1"
                /\ "exit0" \notin TraceEvents
                /\ "spawn" \notin TraceEvents
                /\ card.spawnArgs = <<>>

\* a process started with -open-website=false and a restart delay has
\* spawned its successor and exited with code 0
C26_Witness ==
    /\ proc = "exit0"
    /\ config.RestartDelay > 0
    /\ restartTrace = <<"notify-trigger", "sleep-settle", "sleep-delay",
                        "spawn", "notify-started", "exit0">>
    /\ card.args = <<"-open-website=false">>
    /\ card.spawnArgs = <<"-open-website=false", "--auto-restart">>

\* C27: the read-decide-update step of the NotificationManager is atomic
\* with respect to the other goroutine: once every call has returned, each
\* report made has been counted exactly once.
C27_ThrottleStepAtomic ==
    (\A a \in RaceActors : card.actors[a].pc = "idle") =>
        SumOver(errorCounts, ErrorTypes) = card.reports

\* Start retries: it sleeps reconnect_delay seconds and begins the next
\* iteration of the service loop with a new context to establish
RetriesLoop ==
    /\ proc' = "running"
    /\ card'.pc = "ContextPending"
    /\ card'.attempt = 1
    /\ ~card'.ctx
    /\ card'.sleep = config.ReconnectDelay

\* Start stops the service: the process exits with code 1 and no restart
StopsService ==
    /\ proc' = "exit1"
    /\ restartTrace' = restartTrace

\* C28 as stated: with auto_reconnect, no reader found is retried as a
\* full iteration after reconnect_delay, and a configured device number
\* out of range stops the service; without auto_reconnect both stop it
\* with exit code 1.
C28_FatalConfiguration ==
    [][ card.pc = "LoopFailed" =>
          /\ card.err = "no readers" =>
                IF config.AutoReconnect THEN RetriesLoop ELSE StopsService
          /\ card.err = "device number out of range" =>
                StopsService ]_vars

\* C28, amended: with auto_reconnect, no reader found and a configured
\* device number out of range are both retried as a full iteration after
\* reconnect_delay; without auto_reconnect both stop the service with exit
\* code 1.
C28_FatalConfigurationRetried ==
    [][ (/\ card.pc = "LoopFailed"
         /\ card.err \in {"no readers", "device number out of range"}) =>
            IF config.AutoReconnect THEN RetriesLoop ELSE StopsService ]_vars

\* auto_reconnect is on, device 3 is configured with fewer readers
\* attached, and the service loop begins its next iteration after the sleep
C28_Witness ==
    /\ config.AutoReconnect
    /\ config.Device = 3
    /\ card.pc = "ContextPending"
    /\ card.err = "device number out of range"
    /\ card.sleep = config.ReconnectDelay
    /\ proc = "running"

\* C29: with self_restart enabled, when no attempt to establish the PC/SC
\* context has succeeded, the process does not stop without having run the
\* restart sequence, whatever retry_attempts, max_context_failures and
\* auto_reconnect are.
C29_PersistentFailureRestarts ==
    (config.SelfRestart /\ ~card.everCtx /\ proc # "running") =>
        /\ Len(restartTrace) >= 2
        /\ restartTrace[1] = "notify-trigger"

\* the command line of the process holds the auto-restart marker
MarkerGiven ==
    \E i \in 1..Len(card.args) : card.args[i] = "--auto-restart"

\* C30: a process that a self-restart has spawned, its command line
\* holding the auto-restart marker, does not open the browser, whatever
\* open_website is in config.yaml and on the command line; a process whose
\* command line does not hold the marker opens the browser exactly when
\* open_website is set.
C30_RestartSuppressesBrowser ==
    card.pc # "start" =>
        /\ (card.generation > 0 /\ MarkerGiven) => ~card.browser
        /\ ~MarkerGiven => (card.browser <=> config.OpenWebsite)

\* the number a numeric part stands for
NumberOf(part) ==
    CASE part = <<"0">> -> 0
      [] part = <<"2">> -> 2
      [] part = <<"9">> -> 9
      [] part = <<"1", "0">> -> 10

\* part i of the (major, minor, patch) triple of a version: a missing part
\* is 0
TriplePart(v, i) == IF i <= Len(v.parts) THEN NumberOf(v.parts[i]) ELSE 0

\* every part of the version is a number
IsNumeric(v) == \A i \in 1..Len(v.parts) : v.parts[i] \in NumberParts

\* the triple of a is strictly greater than the triple of b,
\* lexicographically
TripleGreater(a, b) ==
    \E i \in 1..3 :
        /\ TriplePart(a, i) > TriplePart(b, i)
        /\ \A j \in 1..(i - 1) : TriplePart(a, j) = TriplePart(b, j)

\* C31: for versions with numeric parts, isNewerVersion(remote, current)
\* returns true exactly when the (major, minor, patch) triple of remote is
\* lexicographically greater than that of current, a leading 'v' stripped
\* and missing parts read as 0; it is false for equal triples and never
\* true in both directions.
C31_VersionOrder ==
    (card.pc = "returned" /\ IsNumeric(card.remote)
     /\ IsNumeric(card.current)) =>
        /\ card.result.err = Nil
        /\ card.result.newer <=> TripleGreater(card.remote, card.current)
        /\ ~(card.result.newer /\ card.reverse.newer)
        /\ (\A i \in 1..3 : TriplePart(card.remote, i)
                                = TriplePart(card.current, i)) =>
               ~card.result.newer

\* v0.2.10 was compared with 0.2.9 and found newer
C31_Witness ==
    /\ card.pc = "returned"
    /\ VersionString(card.remote) = <<"v", "0", ".", "2", ".", "1", "0">>
    /\ VersionString(card.current) = <<"0", ".", "2", ".", "9">>
    /\ card.result.newer
    /\ ~card.reverse.newer

\* the processes that have passed the lock check and run the service
Serving == { p \in Procs : card.procs[p].pc \in {"service", "spawned"} }

\* C32: at any time at most one running process has passed the lock
\* check and started the reader service, however the starting processes
\* interleave, with and without a stale lock file. (A process that has
\* spawned its successor and is about to exit is not counted against the
\* successor.)
C32_SingleInstance ==
    \A p \in Serving, q \in Serving :
        p = q \/ card.procs[p].parent = q \/ card.procs[q].parent = p

\* C35: the process a self-restart has spawned is never rejected as a
\* duplicate at its lock check, whatever its parent still has to do.
C35_RestartKeepsAnInstance ==
    \A c \in Procs :
        card.procs[c].parent # 0 => card.procs[c].pc # "rejected"


\* the positions of the watcher where an attempt of a smartcard call is
\* under way: scard.EstablishContext, waitUntilCardPresent, ctx.Connect
\* and waitUntilCardRelease; the first three run inside Retry
AttemptPcs == {"ContextPending", "AwaitingCard", "CardPresent",
               "AwaitingRelease"}
RetriedPcs == AttemptPcs \ {"AwaitingRelease"}

\* the step is a failed attempt of the call under way: Retry goes on to
\* the next attempt, or the call returns its error, or the restart fired
AttemptFails ==
    /\ card.pc \in AttemptPcs
    /\ \/ card'.pc = card.pc /\ card'.attempt = card.attempt + 1
       \/ card'.pc \in {"LoopFailed", "WaitFailed", "CardFailed",
                        "ReleaseFailed", "exited"}

\* the step is a failed attempt after which Retry gives up
AttemptExhausts ==
    /\ card.pc \in RetriedPcs
    /\ card'.pc \in {"LoopFailed", "WaitFailed", "CardFailed"}

\* the step is a successful attempt of the call under way
AttemptSucceeds ==
    \/ card.pc = "ContextPending" /\ card'.pc = "ListReaders"
    \/ card.pc = "AwaitingCard" /\ card'.pc = "CardPresent"
    \/ card.pc = "CardPresent" /\ card'.pc = "CardConnected"
    \/ card.pc = "AwaitingRelease" /\ card'.pc = "AwaitingCard"

\* C33: every failed attempt of context establishment, card connection
\* and status-change wait raises the failure counter by exactly 1, and a
\* successful attempt raises it by nothing; a retried operation starts at
\* attempt 1, every failed attempt but the last leads to the next attempt,
\* and Retry gives up on attempt retry_attempts exactly, so that an
\* exhausted operation has added retry_attempts to the counter.
C33_EveryFailedAttemptCounts ==
    [][ /\ AttemptFails => contextFailureCount' = contextFailureCount + 1
        /\ AttemptSucceeds => contextFailureCount' <= contextFailureCount
        /\ (AttemptSucceeds /\ card.pc # "ContextPending") =>
               contextFailureCount' = contextFailureCount
        /\ (card'.pc \in RetriedPcs /\ card'.pc # card.pc) =>
               card'.attempt = 1
        /\ (card.pc \in RetriedPcs /\ card'.pc = card.pc) =>
               /\ card'.attempt = card.attempt + 1
               /\ card'.attempt <= config.RetryAttempts
        /\ AttemptExhausts => card.attempt = config.RetryAttempts ]_vars

\* retry_attempts is 2 and both attempts to connect to the first card have
\* failed: the counter stands at 2 and processCard has returned the error
C33_Witness ==
    /\ config.RetryAttempts = 2
    /\ card.pc = "CardFailed"
    /\ card.err = "failed to connect to card"
    /\ contextFailureCount = 2
    /\ hist.ops = {"Reader Connection"}
    /\ proc = "running"


\* C34 as stated: with auto_reconnect, once every smartcard call succeeds
\* and the selected device is in the reader list, the service reaches the
\* blocking wait for a card.
C34_Recovers ==
    (config.AutoReconnect /\ card.callsOk /\ proc = "running")
        ~> (card.pc = "AwaitingCard")

\* C34, amended: with auto_reconnect, once every smartcard call succeeds,
\* the selected device is in the reader list and the virtual keyboard can
\* be created, the service reaches the blocking wait for a card.
C34_RecoversWithKeyboard ==
    (config.AutoReconnect /\ card.callsOk /\ card.keyboardOk
        /\ proc = "running")
        ~> (card.pc = "AwaitingCard")

\* the environment has recovered after the context could not be
\* established at first, and the service waits for a card again
C34_Witness ==
    /\ config.AutoReconnect
    /\ card.callsOk
    /\ card.keyboardOk
    /\ card.pc = "AwaitingCard"
    /\ hist.resetFrom > 0
    /\ card.sleep = NoTime
    /\ proc = "running"


\* the step is a successful attempt to establish the PC/SC context
ContextEstablished ==
    card.pc = "ContextPending" /\ card'.pc = "ListReaders"

\* the step belongs to a card read that succeeds: the card is connected,
\* read and written, or taken away
CardReadStep ==
    \/ card.pc = "CardPresent" /\ card'.pc = "CardConnected"
    \/ card.pc = "CardConnected" /\ card'.pc = "AwaitingRelease"
    \/ card.pc = "AwaitingRelease" /\ card'.pc = "AwaitingCard"

\* C36: the failure counter goes down only in a step that establishes the
\* context, where it becomes 0; the steps of a successful card read leave
\* it unchanged, and so the counter is the number of failures of any
\* operation since the context was last established.
C36_ResetOnlyByContext ==
    [][ /\ contextFailureCount' < contextFailureCount =>
               (ContextEstablished /\ contextFailureCount' = 0)
        /\ ContextEstablished => contextFailureCount' = 0
        /\ CardReadStep => contextFailureCount' = contextFailureCount
        /\ contextFailureCount' = hist'.run ]_vars

\* within one context a connection attempt failed, the card was then read,
\* and the wait for its release failed: the counter stands at 2
C36_Witness ==
    /\ card.pc = "ReleaseFailed"
    /\ card.contexts = 1
    /\ contextFailureCount = 2
    /\ hist.ops = {"Reader Connection", "Reader Status Monitoring"}
    /\ proc = "running"


\* the step is a failure of ctx.ListReaders
EnumerationFails ==
    /\ card.pc = "ListReaders"
    /\ \/ card'.pc = "LoopFailed" /\ card'.err = "failed to list readers"
       \/ card'.pc = "exited"

\* C37: a failure of the reader enumeration finds the failure counter at
\* 0, the context having just been established, and leaves it at 1; with
\* max_context_failures >= 2 it never starts a self-restart, however many
\* enumerations have failed before.
C37_EnumerationNeverAccumulates ==
    [][ EnumerationFails =>
          /\ contextFailureCount = 0
          /\ contextFailureCount' = 1
          /\ config.MaxContextFailures >= 2 =>
                (proc' = "running" /\ restartTrace' = <<>>) ]_vars

\* self_restart is on with threshold 2; the enumeration has failed again
\* in a context whose establishment had cleared a counter of 1, and the
\* process still runs
C37_Witness ==
    /\ config.SelfRestart
    /\ config.MaxContextFailures = 2
    /\ config.RetryAttempts = 2
    /\ card.pc = "LoopFailed"
    /\ card.err = "failed to list readers"
    /\ hist.resetFrom = 1
    /\ contextFailureCount = 1
    /\ proc = "running"


\* C38: as long as no status-monitoring call has failed since the card on
\* the reader was placed, its UID has been written at most once: after the
\* write the watcher stays in the release wait until GetStatusChange has
\* reported the reader empty.
C38_EmittedOnce ==
    /\ ~card.monitorErr => card.emitted <= 1
    /\ (~card.monitorErr /\ card.emitted = 1 /\ card.reader # "empty") =>
           card.pc \in {"release-check", "release-call"}

\* the card was read, its state on the reader has changed twice since,
\* and the watcher still waits for its release
C38_Witness ==
    /\ card.emitted = 1
    /\ ~card.monitorErr
    /\ card.pc = "release-call"
    /\ card.cur = "inuse"
    /\ card.reader = "present"


\* C39: the process holds at most one PC/SC context and at most one
\* connected card, and a card only within a context; no context is held
\* when the next one is about to be established or when runServiceLoop
\* has returned, and no card is held when the next connect is about to be
\* made or when processCard has returned, with or without an error.
C39_OneContextOneCard ==
    /\ card.contexts \in {0, 1}
    /\ card.cards \in {0, 1}
    /\ card.cards <= card.contexts
    /\ card.pc \in {"ContextPending", "LoopFailed"} => card.contexts = 0
    /\ card.pc \in {"ListReaders", "AwaitingCard", "WaitFailed",
                    "CardPresent", "CardFailed"} =>
           (card.contexts = 1 /\ card.cards = 0)
    /\ card.pc \in {"CardConnected", "AwaitingRelease", "ReleaseFailed"} =>
           (card.contexts = 1 /\ card.cards = 1)

\* a context was given up after an error and the next one established; in
\* it a card was read and disconnected, and the next card is connected
C39_Witness ==
    /\ card.pc = "CardConnected"
    /\ card.contexts = 1
    /\ card.cards = 1
    /\ errorCounts["service-error"] = 1
    /\ errorCounts["card-error"] = 1
    /\ hist.resetFrom = 1
    /\ proc = "running"


\* runServiceLoop has indexed the reader list of the last enumeration with
\* Device: it went on to create the keyboard
ReaderIndexed ==
    \/ card.pc \in {"AwaitingCard", "WaitFailed", "CardPresent",
                    "CardConnected", "CardFailed", "AwaitingRelease",
                    "ReleaseFailed"}
    \/ card.pc = "LoopFailed" /\ card.err = "failed to create keyboard"

\* C40: whenever the reader list has been indexed, Device is between 1
\* and the number of readers of that enumeration; a Device out of that
\* range, configured or chosen at the prompt of an earlier iteration, ends
\* the iteration with the range error instead.
C40_DeviceInRange ==
    /\ ReaderIndexed =>
           (1 <= flags.Device /\ flags.Device <= card.readers)
    /\ (card.pc = "LoopFailed"
           /\ card.err = "device number out of range") =>
           (flags.Device < 1 \/ flags.Device > card.readers)

\* device 2 was chosen at the prompt with two readers attached; a later
\* iteration found one reader and ended with the range error
C40_Witness ==
    /\ config.Device = 0
    /\ flags.Device = 2
    /\ card.readers = 1
    /\ card.pc = "LoopFailed"
    /\ card.err = "device number out of range"
    /\ proc = "running"

=============================================================================
